---- MODULE Spec2Model ----
(***************************************************************************)
(* A model of the cpu daemon's namespace assembler (Session.Namespace /    *)
(* Server.Namespace) and of the FUSE-to-9P gateway (P9FS) it mounts.       *)
(*                                                                         *)
(* One session is modelled.  The session thread runs Namespace step by     *)
(* step; once fuse.Mount has returned, kernel-dispatched workers call the  *)
(* gateway's handlers concurrently with the rest of Namespace.  A Go panic *)
(* or a runtime fatal error in any goroutine ends the whole process.       *)
(*                                                                         *)
(* The read-only archive backend (CPIO9P / CPIO9PFID) is modelled beside   *)
(* them: its record list and name index, and one client that attaches,    *)
(* walks, opens, lists and tries to mutate.                                *)
(***************************************************************************)
EXTENDS Integers, Sequences, FiniteSets, TLC

\* ------------------------------------------------------------------ bounds
\* Kernel requests issued to the gateway in one run.  The FUSE server runs
\* each request in a worker context (goroutine) of its own, so this is also
\* the number of workers that can be inside the gateway at the same time.
MaxReqs == 2
\* Length of the session's bind list.
MaxBinds == 3
\* QID path values the backend may report (1..MaxQid).
MaxQid == 2

\* Records in the archive the archive backend serves.
MaxRecs == 3
\* Names in one Walk call.
MaxWalk == 2

\* ---------------------------------------------------------------- constants
\* fuseops.RootInodeID, the key of the root entry: s.cfs.inMap[1] = ...
RootInodeID == 1

Workers == 1..MaxReqs
QPaths == 1..MaxQid
InodeIDs == 1..MaxQid
HandleIDs == 1..MaxQid
Bytes == {0, 1}

\* os.ErrNotExist, the value the handlers name after their panics.
ErrNotExist == "ENOENT"
\* Errors a backend call (walk, getattr, open, readdir) can fail with.
BackendErrs == {"EIO", "EACCES"}

\* ------------------------------------------------------------------ errors
\* A Go error value: nil, one plain error, or a *multierror.Error holding a
\* list.  Errors lists the bind (by its id) each contained record is about.
NilErr == [kind |-> "nil", Errors |-> <<>>]

\* fmt.Errorf("CPUD:Warning: mounting %v on %v failed: %v", t, n, err)
Errorf(n) == [kind |-> "plain", Errors |-> <<n>>]

\* A hard error of Namespace; what names the failing step.
HardErr(what) == [kind |-> what, Errors |-> <<>>]

\* multierror.Append(err, errs...): if err is already a *multierror.Error the
\* errs are appended to it; otherwise a new list is started that holds err
\* (when non-nil) followed by errs.
MultierrorAppend(err, errs) ==
    [kind |-> "multi",
     Errors |-> (IF err.kind = "nil" THEN <<>> ELSE err.Errors) \o errs]

\* --------------------------------------------------------------- variables
VARIABLES
    \* -- process environment and package globals
    CPUNONCE,       \* TRUE iff CPUNONCE is present in the environment
    CPUD_FUSE,      \* TRUE iff CPUD_FUSE is set to a non-empty value
    FUSE,           \* var FUSE bool
    \* -- Session
    binds,          \* s.binds: the list of Bind, each named by an id
    fail,           \* s.fail
    failAtEntry,    \* s.fail as Run left it when it called Namespace
    \* -- Namespace's position and locals
    ns_pc,          \* where the session thread is in Namespace
    bindIdx,        \* position of the range loop over s.binds
    warning,        \* var warning error
    retWarning,     \* first return value
    retErr,         \* second return value
    \* -- what the session did to the outside world
    dials,          \* net.Dial calls made
    nonceWrites,    \* times the nonce was written to a connection
    rootfs,         \* what is mounted on mountTarget: "none", "9p", "fuse"
    attempts,       \* the bind mounts attempted, in order: [bind, ok]
    mounts,         \* binds currently mounted
    \* -- P9FS
    serving,        \* fuse.Mount has returned: the kernel can deliver requests
    mu,             \* p9fs.mu: 0 when free, else the worker holding it
    inMap,          \* p9fs.inMap
    openfile,       \* p9fs.openfile
    keepPageCache,  \* p9fs.keepPageCache
    rootFid,        \* s.root, the fid Attach returned
    \* -- kernel workers
    pc,             \* each worker's position in its handler
    op,             \* each worker's current (or last) request
    loc,            \* each worker's handler locals
    resp,           \* each worker's reply to the kernel
    panicked,       \* "none", or the message the process died with
    \* -- the archive backend (CPIO9P) and the one client holding a fid on it
    recs,           \* fs.recs: the records' names, in archive order
    m,              \* fs.m: name -> index into recs
    fid,            \* the node (CPIO9PFID) the client holds
    arOp,           \* the last call made on the backend
    arRes,          \* what that call returned
    \* -- what the 9P server answers the gateway's GetAttr with
    backend,        \* the size each backing object has now, by QID path
    fetches,        \* GetAttr calls each worker has issued on its fid
    now,            \* time.Now(), in seconds since the session started
    mtime,          \* p9fs.mtime
    \* -- the real-filesystem backend (CPU9P) and its client
    tree,           \* the backing tree: path -> kind of the object there
    nodes,          \* the CPU9P objects allocated so far, in order
    osfile,         \* the os.File of the one node opened for I/O
    fsOp,           \* the last call made on the backend
    fsRes,          \* what that call returned
    \* -- a second Session of the same process
    environ,        \* the environment the process was started with
    peer,           \* where its Namespace call is, and what it has done
    \* -- a directory of the real-filesystem backend and its one reader
    entries,        \* the names ioutil.ReadDir lists for it, in its order
    rd              \* the reader: the handle's offset, the last ReadDir

envVars == <<CPUNONCE, CPUD_FUSE, FUSE>>
sessVars == <<binds, fail, failAtEntry>>
nsVars == <<ns_pc, bindIdx, warning, retWarning, retErr>>
worldVars == <<dials, nonceWrites, rootfs, attempts, mounts>>
fsVars == <<serving, mu, inMap, openfile, keepPageCache, rootFid>>
workerVars == <<pc, op, loc, resp>>
arVars == <<recs, m, fid, arOp, arRes>>
gaVars == <<backend, fetches, now, mtime>>
cpuVars == <<tree, nodes, osfile, fsOp, fsRes>>
peerVars == <<environ, peer>>
dirVars == <<entries, rd>>
restVars == <<peerVars, dirVars>>
nonSessionVars == <<arVars, gaVars, cpuVars, restVars>>
vars == <<envVars, sessVars, nsVars, worldVars, fsVars, workerVars, panicked,
          arVars, gaVars, cpuVars, restVars>>

\* ------------------------------------------------------------------- maps
\* make(map[K]V)
EmptyMap == [k \in {} |-> 0]

\* m[k] = v
MapPut(mp, k, v) ==
    [x \in (DOMAIN mp) \cup {k} |-> IF x = k THEN v ELSE mp[x]]

\* ------------------------------------------------------------- gateway types
NoFid == [id |-> -1, path |-> 0]

\* The zero p9.QID
ZeroQID == [Path |-> 0]

\* type entry struct { fid; root; QID; inumber }
Entry(f, r, q, i) == [fid |-> f, root |-> r, QID |-> q, inumber |-> i]

\* type openfile struct { fid; unit }
OpenFileEntry(f, u) == [fid |-> f, unit |-> u]

NoOp == [kind |-> "none", arg |-> 0, off |-> 0]
NoLoc == [cl |-> NoFid, err |-> "nil", q |-> 0]
\* The zero fuseops.InodeAttributes, as far as Size (the one field kept).
NoAttributes == [Size |-> 0]
\* The zero time.Time of an expiration field nothing was assigned to.
NoExpiration == <<>>
\* time.Now().Add(d) at the time t: a time that is set.
ExpiresAt(t, d) == <<t + d>>
NoResp == [err |-> "none", child |-> 0, data |-> <<>>, keep |-> FALSE,
           attrs |-> NoAttributes, EntryExpiration |-> NoExpiration,
           AttributesExpiration |-> NoExpiration]

Alive == panicked = "none"

\* The second session has not called Namespace.
NoPeer ==
    [pc |-> "start", nonce |-> FALSE, sent |-> FALSE, mode |-> "none"]
PeerAtStart ==
    /\ environ = [CPUNONCE |-> CPUNONCE, CPUD_FUSE |-> CPUD_FUSE]
    /\ peer = NoPeer

\* -------------------------------------------------------------------- Init
\* The session as Run hands it to Namespace: the bind list parsed from
\* CPU_NAMESPACE (possibly empty), s.fail possibly already set by Run, and no
\* gateway yet.
InitSession ==
    /\ CPUNONCE \in BOOLEAN
    /\ CPUD_FUSE \in BOOLEAN
    /\ FUSE = FALSE
    /\ \E n \in 0..MaxBinds : binds = [i \in 1..n |-> i]
    /\ fail \in BOOLEAN
    /\ failAtEntry = fail
    /\ ns_pc = "start"
    /\ bindIdx = 1
    /\ warning = NilErr
    /\ retWarning = NilErr
    /\ retErr = NilErr
    /\ dials = 0
    /\ nonceWrites = 0
    /\ rootfs = "none"
    /\ attempts = <<>>
    /\ mounts = {}
    /\ serving = FALSE
    /\ mu = 0
    /\ inMap = EmptyMap
    /\ openfile = EmptyMap
    /\ keepPageCache = FALSE
    /\ rootFid = NoFid
    /\ pc = [w \in Workers |-> "new"]
    /\ op = [w \in Workers |-> NoOp]
    /\ loc = [w \in Workers |-> NoLoc]
    /\ resp = [w \in Workers |-> NoResp]
    /\ panicked = "none"
    /\ PeerAtStart

\* No archive has been opened.
NoNode == [path |-> -1]
NoCall == [kind |-> "none"]
ArchiveUnopened ==
    /\ recs = <<>>
    /\ m = EmptyMap
    /\ fid = NoNode
    /\ arOp = NoCall
    /\ arRes = NoCall

\* Nobody reads a directory.
NoRead == [pc |-> "closed", Dst |-> 0, Offset |-> 0, d |-> <<>>,
           written |-> <<>>, BytesRead |-> 0, seen |-> <<>>]
DirUnread ==
    /\ entries = <<>>
    /\ rd = NoRead

\* The 9P server behind the gateway: every backing object has its first
\* size, and no worker has asked for attributes yet.
BackendAtRest ==
    /\ DirUnread
    /\ backend = [q \in QPaths |-> 0]
    /\ fetches = [w \in Workers |-> 0]
    /\ now = 0
    /\ mtime = 0

\* No real-filesystem backend has been constructed.
CPU9PUnused ==
    /\ tree = EmptyMap
    /\ nodes = <<>>
    /\ osfile = NoCall
    /\ fsOp = NoCall
    /\ fsRes = NoCall

Init == InitSession /\ ArchiveUnopened /\ BackendAtRest /\ CPU9PUnused

\* =============================================================== Namespace
\* return w, e
NsReturn(w, e) ==
    /\ ns_pc' = "done"
    /\ retWarning' = w
    /\ retErr' = e

\* A no-op check that leaves the nonce in the environment.
Namespace_LookupEnv_KeepsNonce ==
    /\ Alive /\ ns_pc = "start"
    /\ IF ~CPUNONCE
         THEN NsReturn(NilErr, NilErr)
         ELSE /\ ns_pc' = "dial"
              /\ UNCHANGED <<retWarning, retErr>>
    /\ UNCHANGED <<envVars, sessVars, bindIdx, warning, worldVars, fsVars,
                   workerVars, panicked>>
    /\ UNCHANGED nonSessionVars

\* nonce, ok := os.LookupEnv("CPUNONCE"); if !ok { return nil, nil };
\* os.Unsetenv("CPUNONCE")
Namespace_LookupEnv ==
    /\ Alive /\ ns_pc = "start"
    /\ IF ~CPUNONCE
         THEN /\ NsReturn(NilErr, NilErr)
              /\ UNCHANGED CPUNONCE
         ELSE /\ CPUNONCE' = FALSE
              /\ ns_pc' = "dial"
              /\ UNCHANGED <<retWarning, retErr>>
    /\ UNCHANGED <<CPUD_FUSE, FUSE, sessVars, bindIdx, warning, worldVars,
                   fsVars, workerVars, panicked>>
    /\ UNCHANGED nonSessionVars

\* so, err := net.Dial("tcp", a)
Namespace_Dial ==
    /\ Alive /\ ns_pc = "dial"
    /\ dials' = dials + 1
    /\ \E ok \in BOOLEAN :
         IF ok THEN /\ ns_pc' = "write"
                    /\ UNCHANGED <<retWarning, retErr>>
               ELSE NsReturn(NilErr, HardErr("Dial 9p port"))
    /\ UNCHANGED <<envVars, sessVars, bindIdx, warning, nonceWrites, rootfs,
                   attempts, mounts, fsVars, workerVars, panicked>>
    /\ UNCHANGED nonSessionVars

\* fmt.Fprintf(so, "%s", nonce)
Namespace_WriteNonce ==
    /\ Alive /\ ns_pc = "write"
    /\ \E ok \in BOOLEAN :
         IF ok THEN /\ nonceWrites' = nonceWrites + 1
                    /\ ns_pc' = "file"
                    /\ UNCHANGED <<retWarning, retErr>>
               ELSE /\ NsReturn(NilErr, HardErr("Write nonce"))
                    /\ UNCHANGED nonceWrites
    /\ UNCHANGED <<envVars, sessVars, bindIdx, warning, dials, rootfs,
                   attempts, mounts, fsVars, workerVars, panicked>>
    /\ UNCHANGED nonSessionVars

\* cf, err := so.(*net.TCPConn).File()
Namespace_File ==
    /\ Alive /\ ns_pc = "file"
    /\ \E ok \in BOOLEAN :
         IF ok THEN /\ ns_pc' = "mode"
                    /\ UNCHANGED <<retWarning, retErr>>
               ELSE NsReturn(NilErr, HardErr("Cannot get fd"))
    /\ UNCHANGED <<envVars, sessVars, bindIdx, warning, worldVars, fsVars,
                   workerVars, panicked>>
    /\ UNCHANGED nonSessionVars

\* A mode selection that takes the gateway path whatever the switch says.
Namespace_Mode_FuseDefault ==
    /\ Alive /\ ns_pc = "mode"
    /\ FUSE' = TRUE
    /\ ns_pc' = "fuse_client"
    /\ UNCHANGED <<CPUNONCE, CPUD_FUSE, sessVars, bindIdx, warning, retWarning,
                   retErr, worldVars, fsVars, workerVars, panicked>>
    /\ UNCHANGED nonSessionVars

\* if os.Getenv("CPUD_FUSE") != "" { FUSE = true }; if FUSE { ... } else { ... }
Namespace_Mode ==
    /\ Alive /\ ns_pc = "mode"
    /\ FUSE' = (FUSE \/ CPUD_FUSE)
    /\ ns_pc' = IF FUSE' THEN "fuse_client" ELSE "mount9p"
    /\ UNCHANGED <<CPUNONCE, CPUD_FUSE, sessVars, bindIdx, warning, retWarning,
                   retErr, worldVars, fsVars, workerVars, panicked>>
    /\ UNCHANGED nonSessionVars

\* cl, err := p9.NewClient(cf, ...)
Namespace_NewClient ==
    /\ Alive /\ ns_pc = "fuse_client"
    /\ \E ok \in BOOLEAN :
         IF ok THEN /\ ns_pc' = "fuse_attach"
                    /\ UNCHANGED <<retWarning, retErr>>
               ELSE NsReturn(NilErr, HardErr("NewClient"))
    /\ UNCHANGED <<envVars, sessVars, bindIdx, warning, worldVars, fsVars,
                   workerVars, panicked>>
    /\ UNCHANGED nonSessionVars

\* root, err := cl.Attach("/"); s.root = root
\* The QID path of the served root is the backend's choice.
Namespace_Attach ==
    /\ Alive /\ ns_pc = "fuse_attach"
    /\ \/ /\ \E p \in QPaths : rootFid' = [id |-> 0, path |-> p]
          /\ ns_pc' = "fuse_newfs"
          /\ UNCHANGED <<retWarning, retErr>>
       \/ /\ NsReturn(NilErr, HardErr("Attach"))
          /\ UNCHANGED rootFid
    /\ UNCHANGED <<envVars, sessVars, bindIdx, warning, worldVars, serving, mu,
                   inMap, openfile, keepPageCache, workerVars, panicked>>
    /\ UNCHANGED nonSessionVars

\* NewP9FS: inMap: make(map), openfile: make(map); it never fails.
\* mtime: time.Now()
NewP9FS ==
    /\ inMap' = EmptyMap
    /\ openfile' = EmptyMap
    /\ keepPageCache' = FALSE
    /\ mu' = 0
    /\ mtime' = now

\* fs, cfs, err := NewP9FS(...); s.fs = fs; s.cfs = cfs
Namespace_NewP9FS ==
    /\ Alive /\ ns_pc = "fuse_newfs"
    /\ NewP9FS
    /\ ns_pc' = "fuse_mount"
    /\ UNCHANGED <<envVars, sessVars, bindIdx, warning, retWarning, retErr,
                   worldVars, serving, rootFid, workerVars, panicked>>
    /\ UNCHANGED <<arVars, cpuVars, restVars, backend, fetches, now>>

\* mfs, err := fuse.Mount(mountTarget, fs, c): on success the server is
\* running and the kernel delivers requests from now on.
Namespace_FuseMount ==
    /\ Alive /\ ns_pc = "fuse_mount"
    /\ \E ok \in BOOLEAN :
         IF ok THEN /\ serving' = TRUE
                    /\ rootfs' = "fuse"
                    /\ ns_pc' = "fuse_rootins"
                    /\ UNCHANGED <<retWarning, retErr>>
               ELSE /\ NsReturn(NilErr, HardErr("fuse.Mount"))
                    /\ UNCHANGED <<serving, rootfs>>
    /\ UNCHANGED <<envVars, sessVars, bindIdx, warning, dials, nonceWrites,
                   attempts, mounts, mu, inMap, openfile, keepPageCache,
                   rootFid, workerVars, panicked>>
    /\ UNCHANGED nonSessionVars

\* s.cfs.inMap[1] = entry{fid: root, root: true, ino: 1}, without p9fs.mu.
Namespace_RootInsert ==
    /\ Alive /\ ns_pc = "fuse_rootins"
    /\ inMap' = MapPut(inMap, RootInodeID,
                       Entry(rootFid, TRUE, ZeroQID, RootInodeID))
    /\ ns_pc' = "binds"
    /\ UNCHANGED <<envVars, sessVars, bindIdx, warning, retWarning, retErr,
                   worldVars, serving, mu, openfile, keepPageCache, rootFid,
                   workerVars, panicked>>
    /\ UNCHANGED nonSessionVars

\* A 9p mount whose failure is not checked: the bind loop runs regardless.
Namespace_Mount9P_IgnoresFailure ==
    /\ Alive /\ ns_pc = "mount9p"
    /\ \E ok \in BOOLEAN : rootfs' = IF ok THEN "9p" ELSE rootfs
    /\ ns_pc' = "binds"
    /\ UNCHANGED <<envVars, sessVars, bindIdx, warning, retWarning, retErr,
                   dials, nonceWrites, attempts, mounts, fsVars, workerVars,
                   panicked>>
    /\ UNCHANGED nonSessionVars

\* unix.Mount("localhost", mountTarget, "9p", flags, opts)
Namespace_Mount9P ==
    /\ Alive /\ ns_pc = "mount9p"
    /\ \E ok \in BOOLEAN :
         IF ok THEN /\ rootfs' = "9p"
                    /\ ns_pc' = "binds"
                    /\ UNCHANGED <<retWarning, retErr>>
               ELSE /\ NsReturn(NilErr, HardErr("9p mount"))
                    /\ UNCHANGED rootfs
    /\ UNCHANGED <<envVars, sessVars, bindIdx, warning, dials, nonceWrites,
                   attempts, mounts, fsVars, workerVars, panicked>>
    /\ UNCHANGED nonSessionVars

\* A loop body that assigns the flag from the last mount's outcome, so that a
\* later successful bind clears it.
BindStep_FlagFollowsLast(n, ok) ==
    /\ attempts' = Append(attempts, [bind |-> n, ok |-> ok])
    /\ mounts' = IF ok THEN mounts \cup {n} ELSE mounts
    /\ fail' = ~ok
    /\ warning' = IF ok THEN warning ELSE MultierrorAppend(Errorf(n), <<>>)
    /\ bindIdx' = bindIdx + 1
    /\ UNCHANGED <<ns_pc, retWarning, retErr>>

\* The body of the range loop for one Bind n, whose unix.Mount(t, n.Local, "",
\* MS_BIND, "") returned ok or an error:
\*   if err != nil { s.fail = true; warning = multierror.Append(fmt.Errorf(..)) }
BindStep(n, ok) ==
    /\ attempts' = Append(attempts, [bind |-> n, ok |-> ok])
    /\ mounts' = IF ok THEN mounts \cup {n} ELSE mounts
    /\ fail' = IF ok THEN fail ELSE TRUE
    /\ warning' = IF ok THEN warning ELSE MultierrorAppend(Errorf(n), <<>>)
    /\ bindIdx' = bindIdx + 1
    /\ UNCHANGED <<ns_pc, retWarning, retErr>>

\* A loop that gives up at the first bind whose mount fails.
Namespace_Bind_StopsAtFailure ==
    /\ Alive /\ ns_pc = "binds"
    /\ bindIdx <= Len(binds)
    /\ \E ok \in BOOLEAN :
         /\ attempts' = Append(attempts, [bind |-> binds[bindIdx], ok |-> ok])
         /\ mounts' = IF ok THEN mounts \cup {binds[bindIdx]} ELSE mounts
         /\ fail' = IF ok THEN fail ELSE TRUE
         /\ warning' = IF ok THEN warning
                             ELSE MultierrorAppend(Errorf(binds[bindIdx]), <<>>)
         /\ bindIdx' = bindIdx + 1
         /\ IF ok THEN UNCHANGED <<ns_pc, retWarning, retErr>>
                  ELSE NsReturn(warning', NilErr)
    /\ UNCHANGED <<envVars, binds, failAtEntry, dials, nonceWrites, rootfs,
                   fsVars, workerVars, panicked>>
    /\ UNCHANGED nonSessionVars

\* for _, n := range s.binds { ... }: one iteration
Namespace_Bind ==
    /\ Alive /\ ns_pc = "binds"
    /\ bindIdx <= Len(binds)
    /\ \E ok \in BOOLEAN : BindStep(binds[bindIdx], ok)
    /\ UNCHANGED <<envVars, binds, failAtEntry, dials, nonceWrites, rootfs,
                   fsVars, workerVars, panicked>>
    /\ UNCHANGED nonSessionVars

\* return warning, nil
Namespace_Return ==
    /\ Alive /\ ns_pc = "binds"
    /\ bindIdx > Len(binds)
    /\ NsReturn(warning, NilErr)
    /\ UNCHANGED <<envVars, sessVars, bindIdx, warning, worldVars, fsVars,
                   workerVars, panicked>>
    /\ UNCHANGED nonSessionVars

\* ------------------------------------------------------- Server.Namespace
\* The server package's assembler: the same steps in kernel-native mode only,
\* followed by the same bind loop.
\* nonce := os.Getenv("CPUNONCE"); os.Unsetenv("CPUNONCE"): the nonce is read
\* without asking whether it is there.
Server_Getenv ==
    /\ Alive /\ ns_pc = "start"
    /\ CPUNONCE' = FALSE
    /\ ns_pc' = "srv_dial"
    /\ UNCHANGED <<CPUD_FUSE, FUSE, sessVars, bindIdx, warning, retWarning,
                   retErr, worldVars, fsVars, workerVars, panicked>>
    /\ UNCHANGED nonSessionVars

\* so, err := net.Dial("tcp4", a)
Server_Dial ==
    /\ Alive /\ ns_pc = "srv_dial"
    /\ dials' = dials + 1
    /\ \E ok \in BOOLEAN :
         IF ok THEN /\ ns_pc' = "srv_write"
                    /\ UNCHANGED <<retWarning, retErr>>
               ELSE NsReturn(warning, HardErr("Dial 9p port"))
    /\ UNCHANGED <<envVars, sessVars, bindIdx, warning, nonceWrites, rootfs,
                   attempts, mounts, fsVars, workerVars, panicked>>
    /\ UNCHANGED nonSessionVars

\* fmt.Fprintf(so, "%s", nonce)
Server_WriteNonce ==
    /\ Alive /\ ns_pc = "srv_write"
    /\ \E ok \in BOOLEAN :
         IF ok THEN /\ nonceWrites' = nonceWrites + 1
                    /\ ns_pc' = "srv_file"
                    /\ UNCHANGED <<retWarning, retErr>>
               ELSE /\ NsReturn(warning, HardErr("Write nonce"))
                    /\ UNCHANGED nonceWrites
    /\ UNCHANGED <<envVars, sessVars, bindIdx, warning, dials, rootfs,
                   attempts, mounts, fsVars, workerVars, panicked>>
    /\ UNCHANGED nonSessionVars

\* cf, err := so.(*net.TCPConn).File()
Server_File ==
    /\ Alive /\ ns_pc = "srv_file"
    /\ \E ok \in BOOLEAN :
         IF ok THEN /\ ns_pc' = "srv_mount9p"
                    /\ UNCHANGED <<retWarning, retErr>>
               ELSE NsReturn(warning, HardErr("Cannot get fd"))
    /\ UNCHANGED <<envVars, sessVars, bindIdx, warning, worldVars, fsVars,
                   workerVars, panicked>>
    /\ UNCHANGED nonSessionVars

\* unix.Mount("127.0.0.1", "/tmp/cpu", "9p", flags, opts)
Server_Mount9P ==
    /\ Alive /\ ns_pc = "srv_mount9p"
    /\ \E ok \in BOOLEAN :
         IF ok THEN /\ rootfs' = "9p"
                    /\ ns_pc' = "binds"
                    /\ UNCHANGED <<retWarning, retErr>>
               ELSE /\ NsReturn(warning, HardErr("9p mount"))
                    /\ UNCHANGED rootfs
    /\ UNCHANGED <<envVars, sessVars, bindIdx, warning, dials, nonceWrites,
                   attempts, mounts, fsVars, workerVars, panicked>>
    /\ UNCHANGED nonSessionVars

\* Server.Namespace up to its bind loop.
ServerNamespaceSetup ==
    \/ Server_Getenv
    \/ Server_Dial
    \/ Server_WriteNonce
    \/ Server_File
    \/ Server_Mount9P

\* Authentication and the root mount, in either serving mode.
NamespaceSetup ==
    \/ Namespace_LookupEnv
    \/ Namespace_Dial
    \/ Namespace_WriteNonce
    \/ Namespace_File
    \/ Namespace_Mode
    \/ Namespace_NewClient
    \/ Namespace_Attach
    \/ Namespace_NewP9FS
    \/ Namespace_FuseMount
    \/ Namespace_RootInsert
    \/ Namespace_Mount9P

NamespaceNext ==
    \/ NamespaceSetup
    \/ Namespace_Bind
    \/ Namespace_Return

\* ================================================================= gateway
Ok == [err |-> "nil", child |-> 0, data |-> <<>>, keep |-> FALSE,
       attrs |-> NoAttributes, EntryExpiration |-> NoExpiration,
       AttributesExpiration |-> NoExpiration]

\* NewP9FS(cl, root, 5*time.Second, 5*time.Second)
lookupEntryTimeout == 5
getattrTimeout == 5

\* A Go panic, or a fatal error of the Go runtime: the process is gone.
Panic(msg) ==
    /\ panicked' = msg
    /\ UNCHANGED <<envVars, sessVars, nsVars, worldVars, fsVars, workerVars>>

\* The handler returns r to the kernel; its locals are gone, except that the
\* error the backend gave it (if any) is remembered for comparison.
Reply(w, r) ==
    /\ resp' = [resp EXCEPT ![w] = r]
    /\ pc' = [pc EXCEPT ![w] = "done"]
    /\ loc' = [loc EXCEPT ![w] = [NoLoc EXCEPT !.err = loc[w].err]]

\* The same, after the backend call of the handler failed with e.
ReplyBackendErr(w, e) ==
    /\ resp' = [resp EXCEPT ![w] = [Ok EXCEPT !.err = e]]
    /\ pc' = [pc EXCEPT ![w] = "done"]
    /\ loc' = [loc EXCEPT ![w] = [NoLoc EXCEPT !.err = e]]

\* The first position of each handler.
Entry_pc(kind) ==
    CASE kind = "LookUpInode" -> "lu_lock"
      [] kind = "GetInodeAttributes" -> "ga_lock"
      [] kind = "OpenDir" -> "od_find"
      [] kind = "ReadDir" -> "rd_find"
      [] kind = "OpenFile" -> "of_lock"
      [] kind = "ReadFile" -> "rf_read"

\* The requests the kernel can send: the operation, the inode or handle it
\* names and, for ReadFile, the offset; a ReadFile destination holds one byte.
Requests ==
    [kind : {"LookUpInode", "GetInodeAttributes", "OpenDir", "OpenFile"},
     arg : InodeIDs, off : {0}]
    \cup [kind : {"ReadDir"}, arg : HandleIDs, off : {0}]
    \cup [kind : {"ReadFile"}, arg : InodeIDs, off : {0, 1}]

\* The FUSE server starts a worker for the next kernel request, which calls
\* the P9FS method for it.  Workers are numbered in the order the requests
\* arrive.  Nothing is delivered before fuse.Mount has returned.
DispatchFrom(w, reqs) ==
    /\ Alive /\ serving
    /\ pc[w] = "new"
    /\ \A v \in Workers : v < w => pc[v] # "new"
    /\ \E r \in reqs :
         /\ op' = [op EXCEPT ![w] = r]
         /\ pc' = [pc EXCEPT ![w] = Entry_pc(r.kind)]
    /\ UNCHANGED <<envVars, sessVars, nsVars, worldVars, fsVars, loc, resp,
                   panicked>>
    /\ UNCHANGED nonSessionVars

Dispatch(w) == DispatchFrom(w, Requests)

\* ------------------------------------------------------------ LookUpInode
\* p9fs.mu.Lock(); defer p9fs.mu.Unlock()
LookUpInode_Lock(w) ==
    /\ Alive /\ pc[w] = "lu_lock"
    /\ mu = 0
    /\ mu' = w
    /\ pc' = [pc EXCEPT ![w] = "lu_find"]
    /\ UNCHANGED <<envVars, sessVars, nsVars, worldVars, serving, inMap,
                   openfile, keepPageCache, rootFid, op, loc, resp,
                   panicked>>
    /\ UNCHANGED nonSessionVars

\* cl, ok := p9fs.inMap[p]; if !ok { panic("NO parent") }
LookUpInode_Find(w) ==
    /\ Alive /\ pc[w] = "lu_find"
    /\ IF op[w].arg \in DOMAIN inMap
         THEN /\ loc' = [loc EXCEPT ![w].cl = inMap[op[w].arg].fid]
              /\ pc' = [pc EXCEPT ![w] = "lu_walk"]
              /\ UNCHANGED <<envVars, sessVars, nsVars, worldVars, fsVars, op,
                             resp, panicked>>
         ELSE Panic("NO parent")
    /\ UNCHANGED nonSessionVars

\* qids, f, _, a, err := cl.fid.WalkGetAttr([]string{op.Name});
\* if err != nil { return err }
\* The lock taken on entry is still held while the backend answers.
LookUpInode_WalkGetAttr(w) ==
    /\ Alive /\ pc[w] = "lu_walk"
    /\ \/ \E e \in BackendErrs :
            /\ ReplyBackendErr(w, e)
            /\ mu' = 0
       \/ \E q \in QPaths :
            /\ loc' = [loc EXCEPT ![w].q = q]
            /\ pc' = [pc EXCEPT ![w] = "lu_commit"]
            /\ UNCHANGED <<resp, mu>>
    /\ UNCHANGED <<envVars, sessVars, nsVars, worldVars, serving, inMap,
                   openfile, keepPageCache, rootFid, op, panicked>>
    /\ UNCHANGED nonSessionVars

\* A commit that keeps an entry already cached under the number instead of
\* replacing it.
LookUpInode_Commit_KeepsOld(w) ==
    /\ Alive /\ pc[w] = "lu_commit"
    /\ LET q == loc[w].q
           f == [id |-> w, path |-> q]
       IN /\ inMap' = IF q \in DOMAIN inMap
                         THEN inMap
                         ELSE MapPut(inMap, q, Entry(f, FALSE, [Path |-> q], q))
          /\ Reply(w, [Ok EXCEPT !.child = q])
    /\ mu' = 0
    /\ UNCHANGED <<envVars, sessVars, nsVars, worldVars, serving, openfile,
                   keepPageCache, rootFid, op, panicked>>
    /\ UNCHANGED nonSessionVars

\* A commit that marks the attributes it returns cacheable as well.
LookUpInode_Commit_AttributesCacheable(w) ==
    /\ Alive /\ pc[w] = "lu_commit"
    /\ LET q == loc[w].q
           f == [id |-> w, path |-> q]
       IN /\ inMap' = MapPut(inMap, q, Entry(f, FALSE, [Path |-> q], q))
          /\ Reply(w, [Ok EXCEPT !.child = q,
                                 !.EntryExpiration = ExpiresAt(now, lookupEntryTimeout),
                                 !.AttributesExpiration = ExpiresAt(now, getattrTimeout)])
    /\ mu' = 0
    /\ UNCHANGED <<envVars, sessVars, nsVars, worldVars, serving, openfile,
                   keepPageCache, rootFid, op, panicked>>
    /\ UNCHANGED nonSessionVars

\* p9fs.inMap[fuseops.InodeID(q.Path)] = entry{fid: f, root: false, QID: q,
\* inumber: q.Path}; op.Entry.Child = fuseops.InodeID(q.Path);
\* op.Entry.EntryExpiration = time.Now().Add(p9fs.lookupEntryTimeout);
\* return nil
LookUpInode_Commit(w) ==
    /\ Alive /\ pc[w] = "lu_commit"
    /\ LET q == loc[w].q
           f == [id |-> w, path |-> q]
       IN /\ inMap' = MapPut(inMap, q, Entry(f, FALSE, [Path |-> q], q))
          /\ Reply(w, [Ok EXCEPT !.child = q,
                                 !.EntryExpiration = ExpiresAt(now, lookupEntryTimeout)])
    /\ mu' = 0
    /\ UNCHANGED <<envVars, sessVars, nsVars, worldVars, serving, openfile,
                   keepPageCache, rootFid, op, panicked>>
    /\ UNCHANGED nonSessionVars

\* ----------------------------------------------------- GetInodeAttributes
\* p9fs.mu.Lock(); defer p9fs.mu.Unlock()
GetInodeAttributes_Lock(w) ==
    /\ Alive /\ pc[w] = "ga_lock"
    /\ mu = 0
    /\ mu' = w
    /\ pc' = [pc EXCEPT ![w] = "ga_find"]
    /\ UNCHANGED <<envVars, sessVars, nsVars, worldVars, serving, inMap,
                   openfile, keepPageCache, rootFid, op, loc, resp,
                   panicked>>
    /\ UNCHANGED nonSessionVars

\* cl, ok := p9fs.inMap[in]; if !ok { panic("NO file") }
GetInodeAttributes_Find(w) ==
    /\ Alive /\ pc[w] = "ga_find"
    /\ IF op[w].arg \in DOMAIN inMap
         THEN /\ loc' = [loc EXCEPT ![w].cl = inMap[op[w].arg].fid]
              /\ pc' = [pc EXCEPT ![w] = "ga_getattr"]
              /\ UNCHANGED <<envVars, sessVars, nsVars, worldVars, fsVars, op,
                             resp, panicked>>
         ELSE Panic("NO file")
    /\ UNCHANGED nonSessionVars

\* q, _, a, err := cl.fid.GetAttr(p9.AttrMaskAll);
\* if err != nil { panic("bad getattr") }; ...; return nil
\* The server's answer to Tgetattr on fid f: the attributes the backing
\* object has at the moment of the call.
GetAttr(f) == [Size |-> backend[f.path]]

\* attrs := fuseops.InodeAttributes{Size: a.Size, ...}: the reply is built
\* from the p9.Attr just fetched (the three times are time.Now()).
Attributes(a) == [Size |-> a.Size]

\* The handler as it would be if it answered from memory: no fetch, the
\* attributes the object had when the session started.
GetInodeAttributes_GetAttr_FromMemory(w) ==
    /\ Alive /\ pc[w] = "ga_getattr"
    /\ Reply(w, [Ok EXCEPT !.attrs = [Size |-> 0],
                           !.AttributesExpiration = ExpiresAt(now, getattrTimeout)])
    /\ mu' = 0
    /\ UNCHANGED <<envVars, sessVars, nsVars, worldVars, serving, inMap,
                   openfile, keepPageCache, rootFid, op, panicked>>
    /\ UNCHANGED nonSessionVars

GetInodeAttributes_GetAttr(w) ==
    /\ Alive /\ pc[w] = "ga_getattr"
    /\ fetches' = [fetches EXCEPT ![w] = @ + 1]
    /\ \/ \E e \in BackendErrs : Panic("bad getattr")
       \/ /\ Reply(w, [Ok EXCEPT !.attrs = Attributes(GetAttr(loc[w].cl)),
                                 !.AttributesExpiration = ExpiresAt(now, getattrTimeout)])
          /\ mu' = 0
          /\ UNCHANGED <<envVars, sessVars, nsVars, worldVars, serving, inMap,
                         openfile, keepPageCache, rootFid, op, panicked>>
    /\ UNCHANGED <<arVars, backend, now, mtime, cpuVars, restVars>>

\* ------------------------------------------------------------------ OpenDir
\* cl, ok := fs.inMap[in]; if !ok { panic("NO file") }   (fs.mu is not taken)
OpenDir_Find(w) ==
    /\ Alive /\ pc[w] = "od_find"
    /\ IF op[w].arg \in DOMAIN inMap
         THEN /\ loc' = [loc EXCEPT ![w].cl = inMap[op[w].arg].fid]
              /\ pc' = [pc EXCEPT ![w] = "od_open"]
              /\ UNCHANGED <<envVars, sessVars, nsVars, worldVars, fsVars, op,
                             resp, panicked>>
         ELSE Panic("NO file")
    /\ UNCHANGED nonSessionVars

\* q, unit, err := cl.fid.Open(p9.ReadOnly); if err != nil { return err }
\* The backend reports the QID of the file the fid is bound to.
OpenDir_Open(w) ==
    /\ Alive /\ pc[w] = "od_open"
    /\ \/ \E e \in BackendErrs : ReplyBackendErr(w, e)
       \/ /\ loc' = [loc EXCEPT ![w].q = loc[w].cl.path]
          /\ pc' = [pc EXCEPT ![w] = "od_record"]
          /\ UNCHANGED resp
    /\ UNCHANGED <<envVars, sessVars, nsVars, worldVars, fsVars, op,
                   panicked>>
    /\ UNCHANGED nonSessionVars

\* op.Handle = fuseops.HandleID(q.Path);
\* fs.openfile[op.Handle] = openfile{fid: cl.fid, unit: int(unit)}; return nil
OpenDir_Record(w) ==
    /\ Alive /\ pc[w] = "od_record"
    /\ openfile' = MapPut(openfile, loc[w].q, OpenFileEntry(loc[w].cl, 0))
    /\ Reply(w, [Ok EXCEPT !.child = loc[w].q])
    /\ UNCHANGED <<envVars, sessVars, nsVars, worldVars, serving, mu, inMap,
                   keepPageCache, rootFid, op, panicked>>
    /\ UNCHANGED nonSessionVars

\* ------------------------------------------------------------------ ReadDir
\* cl, ok := fs.openfile[ha]; if !ok { panic("NO open file") }  (no lock)
ReadDir_Find(w) ==
    /\ Alive /\ pc[w] = "rd_find"
    /\ IF op[w].arg \in DOMAIN openfile
         THEN /\ loc' = [loc EXCEPT ![w].cl = openfile[op[w].arg].fid]
              /\ pc' = [pc EXCEPT ![w] = "rd_readdir"]
              /\ UNCHANGED <<envVars, sessVars, nsVars, worldVars, fsVars, op,
                             resp, panicked>>
         ELSE Panic("NO open file")
    /\ UNCHANGED nonSessionVars

\* d, err := cl.fid.Readdir(uint64(off), uint32(cl.unit));
\* if err != nil { panic("NO readdir") }; ...; return nil
ReadDir_Readdir(w) ==
    /\ Alive /\ pc[w] = "rd_readdir"
    /\ \/ \E e \in BackendErrs : Panic("NO readdir")
       \/ /\ Reply(w, Ok)
          /\ UNCHANGED <<envVars, sessVars, nsVars, worldVars, fsVars, op,
                         panicked>>
    /\ UNCHANGED nonSessionVars

\* ----------------------------------------------------------------- OpenFile
\* fs.mu.Lock(); defer fs.mu.Unlock(); op.KeepPageCache = fs.keepPageCache
OpenFile(w) ==
    /\ Alive /\ pc[w] = "of_lock"
    /\ mu = 0
    /\ Reply(w, [Ok EXCEPT !.keep = keepPageCache])
    /\ UNCHANGED <<envVars, sessVars, nsVars, worldVars, fsVars, op,
                   panicked>>
    /\ UNCHANGED nonSessionVars

\* ----------------------------------------------------------------- ReadFile
\* op.BytesRead, err = io.ReadFull(rand.Reader, op.Dst): the destination is
\* filled with bytes drawn from the system's random source.
ReadFile(w) ==
    /\ Alive /\ pc[w] = "rf_read"
    /\ \E b \in Bytes : Reply(w, [Ok EXCEPT !.data = <<b>>])
    /\ UNCHANGED <<envVars, sessVars, nsVars, worldVars, fsVars, op,
                   panicked>>
    /\ UNCHANGED nonSessionVars

\* ------------------------------------------------------ accesses to the maps
\* Worker w is about to read / write the inode map / the handle map.
ReadsInMap(w) == pc[w] \in {"lu_find", "ga_find", "od_find"}
WritesInMap(w) == pc[w] = "lu_commit"
ReadsOpenfile(w) == pc[w] = "rd_find"
WritesOpenfile(w) == pc[w] = "od_record"
\* The session thread is about to write the inode map.
SessionWritesInMap == ns_pc = "fuse_rootins"

\* Two goroutines are about to access the same map, one of them writing.
Race ==
    \/ \E w1, w2 \in Workers :
         /\ w1 # w2
         /\ \/ WritesInMap(w1) /\ (ReadsInMap(w2) \/ WritesInMap(w2))
            \/ WritesOpenfile(w1) /\ (ReadsOpenfile(w2) \/ WritesOpenfile(w2))
    \/ SessionWritesInMap /\ \E w \in Workers : ReadsInMap(w) \/ WritesInMap(w)

\* Unsynchronised access to a Go map is a data race.  The runtime may detect
\* it and stop the process ("fatal error: concurrent map read and map
\* write"); when it does not, the accesses take effect one after the other.
ConcurrentMapFatal ==
    /\ Alive
    /\ Race
    /\ Panic("concurrent map access")
    /\ UNCHANGED nonSessionVars

GatewayNext ==
    \/ \E w \in Workers : Dispatch(w)
    \/ \E w \in Workers : LookUpInode_Lock(w)
    \/ \E w \in Workers : LookUpInode_Find(w)
    \/ \E w \in Workers : LookUpInode_WalkGetAttr(w)
    \/ \E w \in Workers : LookUpInode_Commit(w)
    \/ \E w \in Workers : GetInodeAttributes_Lock(w)
    \/ \E w \in Workers : GetInodeAttributes_Find(w)
    \/ \E w \in Workers : GetInodeAttributes_GetAttr(w)
    \/ \E w \in Workers : OpenDir_Find(w)
    \/ \E w \in Workers : OpenDir_Open(w)
    \/ \E w \in Workers : OpenDir_Record(w)
    \/ \E w \in Workers : ReadDir_Find(w)
    \/ \E w \in Workers : ReadDir_Readdir(w)
    \/ \E w \in Workers : OpenFile(w)
    \/ \E w \in Workers : ReadFile(w)
    \/ ConcurrentMapFatal

\* ---------------------------------------------------------- specifications
\* The whole program: one session assembling its namespace, and the gateway
\* serving the kernel from the moment it is mounted.
Next == NamespaceNext \/ ServerNamespaceSetup \/ GatewayNext

Spec == Init /\ [][Next]_vars

\* The namespace assembler on its own thread: every session Run can hand to
\* Namespace, in either serving mode, while the kernel sends the gateway no
\* request.  The run is one of Session.Namespace or Server.Namespace.
NextNS == NamespaceNext \/ ServerNamespaceSetup

SpecNS == Init /\ [][NextNS]_vars

\* The gateway under kernel traffic: a session with no overlay requested
\* (CPU_NAMESPACE set and empty) that holds the nonce, so that Namespace
\* stands the gateway up and returns while the workers run.
InitGW ==
    /\ Init
    /\ CPUNONCE
    /\ binds = <<>>
    /\ ~fail

NextGW ==
    \/ NamespaceSetup
    \/ Namespace_Return
    \/ GatewayNext

SpecGW == InitGW /\ [][NextGW]_vars

\* ============================================================ the backend
\* The bytes the served tree holds: byte k of the file whose QID path is q.
BackendByte(q, k) == (q + k) % 2

\* ReadAt(p, offset) on the node of file q, for len(p) = n.
BackendReadAt(q, off, n) == [i \in 1..n |-> BackendByte(q, off + i - 1)]

\* ================================================================== claims
AccessesMap(w) ==
    ReadsInMap(w) \/ WritesInMap(w) \/ ReadsOpenfile(w) \/ WritesOpenfile(w)

\* The worker's backend call is in flight.
InBackendCall(w) == pc[w] \in {"lu_walk", "ga_getattr", "od_open", "rd_readdir"}

\* Worker w is about to look up a key that its map does not hold.
MissingKey(w) ==
    \/ ReadsInMap(w) /\ op[w].arg \notin DOMAIN inMap
    \/ ReadsOpenfile(w) /\ op[w].arg \notin DOMAIN openfile

\* The attempts so far that failed / succeeded.
FailedAttempts == {i \in 1..Len(attempts) : ~attempts[i].ok}
OkAttempts == {i \in 1..Len(attempts) : attempts[i].ok}

\* Namespace has returned after authentication and the root mount succeeded.
ReturnedAfterMount == ns_pc = "done" /\ rootfs # "none"

\* C1: whenever a handler looks up a key that has no cache entry, it returns
\* the NotExist error to the kernel, both cache maps stay as they were, and
\* the process stays alive.
C1_MissingEntryIsRecoverable ==
    [][\A w \in Workers :
         (/\ MissingKey(w)
          /\ \/ pc'[w] # pc[w]
             \/ panicked' \in {"NO parent", "NO file", "NO open file"})
         => /\ panicked' = "none"
            /\ pc'[w] = "done"
            /\ resp'[w].err = ErrNotExist
            /\ inMap' = inMap
            /\ openfile' = openfile]_vars

\* C2: when the backend call of a handler fails, the process stays alive
\* and the handler returns to the kernel the very error the backend gave.
C2_BackendErrorReturnedUnchanged ==
    /\ panicked \notin {"bad getattr", "NO readdir"}
    /\ \A w \in Workers :
         loc[w].err # "nil" => (pc[w] = "done" /\ resp[w].err = loc[w].err)

\* C3: every worker that is about to read or write one of the two cache maps
\* holds the gateway lock, and no two threads are about to access the same
\* map with one of them writing.
C3_MapAccessUnderLock ==
    /\ \A w \in Workers : AccessesMap(w) => mu = w
    /\ ~Race

\* C4: once the mount delivers requests, every handler that looks the root
\* inode up in the inode map finds an entry for it.
C4_RootEntryAfterMount ==
    \A w \in Workers :
        (ReadsInMap(w) /\ op[w].arg = RootInodeID) => RootInodeID \in DOMAIN inMap

\* C5: no worker holds the gateway lock while its backend call is in flight,
\* so no lookup or attribute fetch on another inode waits for the lock behind
\* a backend call.
C5_NoBackendCallUnderLock ==
    /\ \A w \in Workers : InBackendCall(w) => mu # w
    /\ ~ \E w1, w2 \in Workers :
           /\ InBackendCall(w1) /\ mu = w1
           /\ pc[w2] \in {"lu_lock", "ga_lock"}
           /\ op[w2].arg # op[w1].arg

\* Worker w's lookup commits in this step.
LookupCommits(w) == pc[w] = "lu_commit" /\ pc'[w] = "done"

\* C6: a lookup that succeeds stores, under the QID path q the backend
\* resolved, an entry made of its own walk result (replacing whatever was
\* under q), returns q as the child inode, and leaves every other entry as
\* it was; once the root entry is in, nothing but a committing lookup
\* changes the inode map.
C6_LookupInsertsLastWins ==
    [][/\ \A w \in Workers :
            LookupCommits(w) =>
              LET q == loc[w].q
              IN /\ resp'[w].err = "nil"
                 /\ resp'[w].child = q
                 /\ DOMAIN inMap' = (DOMAIN inMap) \cup {q}
                 /\ inMap'[q] = Entry([id |-> w, path |-> q], FALSE, [Path |-> q], q)
                 /\ \A k \in (DOMAIN inMap) \ {q} : inMap'[k] = inMap[k]
       /\ (inMap' # inMap) =>
            \/ \E w \in Workers : LookupCommits(w)
            \/ ns_pc \in {"fuse_newfs", "fuse_rootins"}]_vars

\* Two lookups resolved the same number: the map holds one entry for it, made
\* by one of them, beside the root entry.
C6_Witness ==
    \E w1, w2 \in Workers :
        /\ w1 # w2
        /\ pc[w1] = "done" /\ op[w1].kind = "LookUpInode" /\ resp[w1].err = "nil"
        /\ pc[w2] = "done" /\ op[w2].kind = "LookUpInode" /\ resp[w2].err = "nil"
        /\ resp[w1].child = resp[w2].child
        /\ resp[w1].child # RootInodeID
        /\ inMap[resp[w1].child].fid.id = w2
        /\ RootInodeID \in DOMAIN inMap /\ inMap[RootInodeID].root

\* C7: a ReadFile reply carries the bytes the backend holds for that file at
\* the requested offset, and two reads of the same file at the same offset
\* carry the same bytes.
C7_ReadFileReturnsBackendBytes ==
    /\ \A w \in Workers :
         (pc[w] = "done" /\ op[w].kind = "ReadFile" /\ resp[w].err = "nil")
         => resp[w].data = BackendReadAt(op[w].arg, op[w].off, 1)
    /\ \A w1, w2 \in Workers :
         (/\ pc[w1] = "done" /\ op[w1].kind = "ReadFile"
          /\ pc[w2] = "done" /\ op[w2].kind = "ReadFile"
          /\ op[w1].arg = op[w2].arg /\ op[w1].off = op[w2].off)
         => resp[w1].data = resp[w2].data

\* C8: the binds attempted so far are the first binds of the list, each once
\* and in list order; the mounted binds are exactly those whose mount
\* succeeded; and when Namespace returns after the root mount, every bind of
\* the list has been attempted, whatever the outcomes before it.
C8_EveryBindAttemptedOnce ==
    /\ Len(attempts) <= Len(binds)
    /\ \A i \in 1..Len(attempts) : attempts[i].bind = binds[i]
    /\ mounts = {attempts[i].bind : i \in OkAttempts}
    /\ ReturnedAfterMount => Len(attempts) = Len(binds)

\* Three binds, the second of which failed: the other two are mounted.
C8_Witness ==
    /\ ReturnedAfterMount
    /\ Len(binds) = 3
    /\ FailedAttempts = {2}
    /\ mounts = {binds[1], binds[3]}

\* C9: the warning is non-nil exactly when a bind has failed; the flag is set
\* exactly when it was set on entry or a bind has failed; and a Namespace
\* that got past the root mount returns a nil hard error and that warning.
C9_WarningAndFlagIffBindFailed ==
    /\ (warning # NilErr) <=> (FailedAttempts # {})
    /\ fail <=> (failAtEntry \/ FailedAttempts # {})
    /\ ReturnedAfterMount =>
         /\ retErr = NilErr
         /\ (retWarning # NilErr) <=> (FailedAttempts # {})

\* A run in which a bind failed and a later one succeeded: the flag, clear on
\* entry, is set, and the warning is returned with a nil hard error.
C9_Witness ==
    /\ ReturnedAfterMount
    /\ ~failAtEntry /\ fail
    /\ \E i \in FailedAttempts : \E j \in OkAttempts : i < j
    /\ retWarning # NilErr /\ retErr = NilErr

\* C10: the warning Namespace returns holds one record for each bind that
\* failed.
C10_WarningAggregatesAllFailures ==
    ReturnedAfterMount =>
        /\ Len(retWarning.Errors) = Cardinality(FailedAttempts)
        /\ \A i \in FailedAttempts :
             \E j \in 1..Len(retWarning.Errors) :
                 retWarning.Errors[j] = attempts[i].bind

\* ------------------------------------------------ namespace assembly: claims
\* Namespace has returned a non-nil hard error.
HardFailed == ns_pc = "done" /\ retErr # NilErr

\* The session thread stands at (or has passed) a mount of the root.
AtRootMount == ns_pc \in {"fuse_mount", "fuse_rootins", "mount9p", "srv_mount9p"}

\* Some mount has been attempted: the root's, or a bind's.
MountAttempted ==
    \/ AtRootMount
    \/ ns_pc = "binds"
    \/ rootfs # "none"
    \/ attempts # <<>>
    \/ HardFailed /\ retErr.kind \in {"fuse.Mount", "9p mount"}

\* The gateway path (protocol client, attach, gateway, FUSE mount) was entered.
TriedGateway ==
    \/ ns_pc \in {"fuse_client", "fuse_attach", "fuse_newfs", "fuse_mount",
                  "fuse_rootins"}
    \/ rootfs = "fuse"
    \/ HardFailed /\ retErr.kind \in {"NewClient", "Attach", "fuse.Mount"}

\* The kernel-native 9p mount on the connection's descriptor was entered.
TriedKernel9P ==
    \/ ns_pc \in {"mount9p", "srv_mount9p"}
    \/ rootfs = "9p"
    \/ HardFailed /\ retErr.kind = "9p mount"

\* The run got its descriptor and went through mode selection.
PastModeSelection ==
    /\ nonceWrites = 1
    /\ ns_pc \notin {"file", "srv_file", "mode"}
    /\ ~(HardFailed /\ retErr.kind = "Cannot get fd")

\* C11: a Namespace that dialled and returned without a root mount returned a
\* non-nil hard error; with a hard error no bind was attempted or mounted, no
\* warning is returned and the flag is as it was on entry; and the bind loop
\* is entered, and a bind attempted, only with the root mounted.
C11_HardErrorBeforeAnyBind ==
    /\ (ns_pc = "done" /\ dials > 0 /\ rootfs = "none") => retErr # NilErr
    /\ HardFailed =>
         /\ attempts = <<>> /\ mounts = {}
         /\ fail = failAtEntry
         /\ retWarning = NilErr
         /\ rootfs = "none"
    /\ (ns_pc = "binds" \/ attempts # <<>>) => rootfs # "none"

\* The FUSE mount failed in a session that has binds to make and whose flag
\* was clear: none was attempted, and the flag is still clear.
C11_Witness ==
    /\ HardFailed /\ retErr.kind = "fuse.Mount"
    /\ Len(binds) > 0 /\ attempts = <<>>
    /\ ~failAtEntry /\ ~fail

\* C12: a Namespace entered with no nonce in the environment returns
\* (nil, nil) at once: no dial, no write, no mount, and the flag unchanged.
C12_NoNonceIsNoOp ==
    [][(ns_pc = "start" /\ ~CPUNONCE /\ ns_pc' # ns_pc) =>
         /\ ns_pc' = "done"
         /\ retWarning' = NilErr /\ retErr' = NilErr
         /\ UNCHANGED <<worldVars, fail, serving>>]_vars

\* C13: with an empty bind list Namespace makes no dial, writes no nonce and
\* mounts nothing, and it returns (nil, nil).
C13_NoBindsIsNoOp ==
    binds = <<>> =>
        /\ dials = 0 /\ nonceWrites = 0
        /\ rootfs = "none" /\ ~serving
        /\ ns_pc = "done" => (retWarning = NilErr /\ retErr = NilErr)

\* C14: from the moment Namespace passes the no-op check the nonce is out of
\* the environment, so it is absent at every dial and on every return; it is
\* written at most once, to the one connection dialled; and whenever a mount
\* is attempted it has been written exactly once.
C14_NonceClearedAndWrittenOnce ==
    /\ ns_pc # "start" => ~CPUNONCE
    /\ dials <= 1 /\ nonceWrites <= dials
    /\ MountAttempted => (dials = 1 /\ nonceWrites = 1)

\* Namespace returned with the root and a bind mounted: one dial, one write,
\* and no nonce in the environment.
C14_Witness ==
    /\ ReturnedAfterMount /\ mounts # {}
    /\ dials = 1 /\ nonceWrites = 1
    /\ ~CPUNONCE

\* C15: a run never enters both serving modes; once past mode selection it
\* has entered one of them; the gateway path is entered only with the switch
\* set, and the kernel-native mount only with the FUSE flag clear.
C15_ExactlyOneServingMode ==
    /\ ~(TriedGateway /\ TriedKernel9P)
    /\ PastModeSelection => (TriedGateway \/ TriedKernel9P)
    /\ TriedGateway => (CPUD_FUSE /\ FUSE)
    /\ TriedKernel9P => ~FUSE

\* With the switch unset the session mounted the root kernel-native, and the
\* gateway was never built.
C15_Witness ==
    /\ ReturnedAfterMount
    /\ ~CPUD_FUSE
    /\ rootfs = "9p" /\ rootFid = NoFid /\ ~serving

\* ====================================================== the archive backend
\* CPIO9P serves a cpio archive read-only.  A path string is modelled by the
\* sequence of its components; "." (the archive's root record) is <<>>.
ArchivePaths == {<<>>, <<"b">>, <<"c">>, <<"b", "c">>, <<"b", "b">>}

\* The names a client may put in a Walk.
WalkNames == {"b", "c", ".."}

\* p9.OpenFlags
OpenFlags == {"ReadOnly", "WriteOnly", "ReadWrite"}

\* os.ErrPermission, syscall.ENOSYS
ErrPermission == "EPERM"
ENOSYS == "ENOSYS"

\* The calls of p9.File that would change the served tree.
Mutators == {"WriteAt", "Create", "Mkdir", "Symlink", "Link", "Mknod",
             "Rename", "RenameAt", "UnlinkAt", "SetAttr"}

\* All sequences over S of length at most n.
SeqsUpTo(S, n) == UNION {[1..k -> S] : k \in 0..n}

\* The archives cpio.ReadAllRecords can hand over: at least one record, in
\* any order, names possibly repeated.
Archives == {rs \in SeqsUpTo(ArchivePaths, MaxRecs) : Len(rs) > 0}

\* An index that counts the records from one.
BuildIndex_FromOne(rs) ==
    [nm \in {rs[i] : i \in 1..Len(rs)} |->
        CHOOSE i \in 1..Len(rs) :
            rs[i] = nm /\ \A j \in 1..Len(rs) : rs[j] = nm => j <= i]

\* m := map[string]uint64{}; for i, r := range recs { m[r.Info.Name] = uint64(i) }
\* (a later record of the same name replaces the earlier index).
BuildIndex(rs) ==
    [nm \in {rs[i] : i \in 1..Len(rs)} |->
        (CHOOSE i \in 1..Len(rs) :
            rs[i] = nm /\ \A j \in 1..Len(rs) : rs[j] = nm => j <= i) - 1]

\* NewCPIO9P(c): the record list and the name index, built once.
NewCPIO9P(rs) ==
    /\ recs = rs
    /\ m = BuildIndex(rs)
    /\ fid = NoNode
    /\ arOp = NoCall
    /\ arRes = NoCall

\* --------------------------------------------------------- path/filepath
\* filepath.Join(p, name) = Clean(p + "/" + name), for a clean relative p.
Join(p, name) ==
    IF name = ".." /\ Len(p) > 0 /\ p[Len(p)] # ".."
      THEN SubSeq(p, 1, Len(p) - 1)
      ELSE Append(p, name)

\* The number of leading components two paths share.
CommonPrefix(a, b) ==
    LET n == IF Len(a) < Len(b) THEN Len(a) ELSE Len(b)
    IN CHOOSE k \in 0..n :
         /\ \A i \in 1..k : a[i] = b[i]
         /\ k = n \/ a[k + 1] # b[k + 1]

\* filepath.Rel(basepath, targpath) for clean relative paths: "." when they
\* are equal; an error when base's first differing component is ".."; else
\* one ".." for each component base has left, followed by what targ has left.
\* A targ of "." keeps its one component "." (only base's "." is emptied).
Rel(base, targ) ==
    LET t == IF targ = <<>> THEN <<".">> ELSE targ
        c == CommonPrefix(base, t)
    IN IF base = targ THEN [err |-> "nil", path |-> <<".">>]
       ELSE IF c < Len(base) /\ base[c + 1] = ".."
         THEN [err |-> "Rel", path |-> <<>>]
       ELSE [err |-> "nil",
             path |-> [i \in 1..(Len(base) - c) |-> ".."]
                        \o SubSeq(t, c + 1, Len(t))]

\* dir, _ := filepath.Split(b): everything up to the last separator.
SplitDir(b) == SubSeq(b, 1, Len(b) - 1)

\* ------------------------------------------------------------- CPIO9PFID
\* func (l *CPIO9PFID) rec(): paths are 0-based indices into recs.  An index
\* equal to len(recs) passes the bounds test and faults on the slice.
rec(l) ==
    IF l.path > Len(recs) THEN [err |-> ErrNotExist, name |-> <<>>]
    ELSE IF l.path = Len(recs) \/ l.path < 0
      THEN [err |-> "index out of range", name |-> <<>>]
    ELSE [err |-> "nil", name |-> recs[l.path + 1]]

\* p9.QIDType: TypeRegular is the zero value, TypeDir the directory bit.
TypeRegular == "TypeRegular"
TypeDir == "TypeDir"

\* The records whose Info.Mode says directory: "." and "b", as in an archive
\* of b/, b/c, b/b and c.
ArchiveDirs == {<<>>, <<"b">>}

\* p9.ModeFromOS(fi.Mode).QIDType()
QIDType(name) == IF name \in ArchiveDirs THEN TypeDir ELSE TypeRegular

\* func (l *CPIO9PFID) info(): var qid p9.QID; qid.Path = l.path.  The line
\* that would set qid.Type from fi.Mode is commented out, so Type stays zero.
info(l) ==
    LET r == rec(l)
    IN [err |-> r.err,
        qid |-> IF r.err = "nil"
                  THEN [Path |-> l.path, Type |-> TypeRegular]
                  ELSE [Path |-> 0, Type |-> TypeRegular]]

\* What Walk returns when it fails: nil, nil, err.
WalkFailed(e, n) == [err |-> e, qids |-> <<>>, file |-> NoNode, examined |-> n]

\* A loop body that looks every name up under the starting node's path.
WalkStep_ForgetsPath(st, name) ==
    IF st.err # "nil" THEN st
    ELSE LET i == info([path |-> st.last.path])
             fullpath == Join(st.fullpath, name)
         IN IF i.err # "nil"
              THEN [st EXCEPT !.err = i.err, !.qids = <<>>, !.last = NoNode]
            ELSE IF fullpath \notin DOMAIN m
              THEN [st EXCEPT !.err = ErrNotExist, !.qids = <<>>, !.last = NoNode,
                              !.examined = @ + 1]
            ELSE [st EXCEPT !.qids = Append(@, i.qid),
                            !.last = [path |-> m[fullpath]],
                            !.examined = @ + 1]

\* A loop body that passes over a name the index does not hold.
WalkStep_SkipsMiss(st, name) ==
    IF st.err # "nil" THEN st
    ELSE LET i == info([path |-> st.last.path])
             fullpath == Join(st.fullpath, name)
         IN IF i.err # "nil"
              THEN [st EXCEPT !.err = i.err, !.qids = <<>>, !.last = NoNode]
            ELSE IF fullpath \notin DOMAIN m
              THEN [st EXCEPT !.examined = @ + 1]
            ELSE [st EXCEPT !.qids = Append(@, i.qid),
                            !.last = [path |-> m[fullpath]],
                            !.fullpath = fullpath,
                            !.examined = @ + 1]

\* One iteration of Walk's loop over names.  st holds the loop's variables:
\* qids, last, fullpath, the error returned (if the loop has returned) and the
\* count of index lookups made.
\*   c := &CPIO9PFID{path: last.path}; qid, fi, err := c.info()
\*   fullpath = filepath.Join(fullpath, name); ix, ok := l.fs.m[fullpath]
\*   if !ok { return nil, nil, os.ErrNotExist }
\*   qids = append(qids, qid); last.path = ix
WalkStep(st, name) ==
    IF st.err # "nil" THEN st
    ELSE LET i == info([path |-> st.last.path])
             fullpath == Join(st.fullpath, name)
         IN IF i.err # "nil"
              THEN [st EXCEPT !.err = i.err, !.qids = <<>>, !.last = NoNode]
            ELSE IF fullpath \notin DOMAIN m
              THEN [st EXCEPT !.err = ErrNotExist, !.qids = <<>>, !.last = NoNode,
                              !.fullpath = fullpath, !.examined = @ + 1]
            ELSE [st EXCEPT !.qids = Append(@, i.qid),
                            !.last = [path |-> m[fullpath]],
                            !.fullpath = fullpath,
                            !.examined = @ + 1]

RECURSIVE WalkLoop(_, _)
\* for _, name := range names { ... }
WalkLoop(st, names) ==
    IF names = <<>> THEN st
    ELSE WalkLoop(WalkStep(st, Head(names)), Tail(names))

\* func (l *CPIO9PFID) Walk(names []string) ([]p9.QID, p9.File, error)
Walk(l, names) ==
    LET r == rec(l)
    IN IF r.err # "nil" THEN WalkFailed(r.err, 0)
       ELSE IF names = <<>>
         THEN LET i == info([path |-> l.path])
              IN IF i.err # "nil" THEN WalkFailed(i.err, 0)
                 ELSE [err |-> "nil", qids |-> <<i.qid>>,
                       file |-> [path |-> l.path], examined |-> 0]
       ELSE LET st == WalkLoop([err |-> "nil", qids |-> <<>>,
                                last |-> [path |-> l.path],
                                fullpath |-> r.name, examined |-> 0], names)
            IN [err |-> st.err, qids |-> st.qids, file |-> st.last,
                examined |-> st.examined]

\* An Open that grants every mode.
Open_AnyMode(l, mode) ==
    LET i == info(l)
    IN [err |-> i.err, qid |-> i.qid, iounit |-> 0]

\* func (l *CPIO9PFID) Open(mode p9.OpenFlags) (p9.QID, uint32, error)
Open(l, mode) ==
    LET i == info(l)
    IN IF i.err # "nil" THEN [err |-> i.err, qid |-> i.qid, iounit |-> 0]
       ELSE IF mode # "ReadOnly"
         THEN [err |-> ErrPermission, qid |-> i.qid, iounit |-> 0]
       ELSE [err |-> "nil", qid |-> i.qid, iounit |-> 0]

\* WriteAt, Create, Mkdir, Symlink, Link, UnlinkAt, SetAttr return
\* os.ErrPermission; Mknod, Rename, RenameAt return syscall.ENOSYS.
MutatorErr(kind) ==
    IF kind \in {"Mknod", "Rename", "RenameAt"} THEN ENOSYS ELSE ErrPermission

RECURSIVE readdirLoop(_, _)
\* for i, r := range l.fs.recs[l.path+1:] { b, err := filepath.Rel(dn, r.Name);
\*   if err != nil { break }; dir, _ := filepath.Split(b);
\*   if len(dir) > 0 { continue }; list = append(list, uint64(i)+l.path+1) }
\* i is the index into recs of the record the loop is at.
readdirLoop(dn, i) ==
    IF i >= Len(recs) THEN <<>>
    ELSE LET b == Rel(dn, recs[i + 1])
         IN IF b.err # "nil" THEN <<>>
            ELSE IF Len(SplitDir(b.path)) > 0 THEN readdirLoop(dn, i + 1)
            ELSE <<i>> \o readdirLoop(dn, i + 1)

\* func (l *CPIO9PFID) readdir() ([]uint64, error)
readdir(l) ==
    LET r == rec(l)
    IN IF r.err # "nil" THEN [err |-> r.err, list |-> <<>>]
       ELSE [err |-> "nil", list |-> readdirLoop(r.name, l.path + 1)]

\* p9.Dirent{QID: qid, Type: qid.Type, Name: ..., Offset: ...}
Dirent(q, nm, off) == [QID |-> q, Type |-> q.Type, Name |-> nm, Offset |-> off]

\* func (l *CPIO9PFID) Readdir(offset uint64, count uint32) (p9.Dirents, error):
\* a "." entry for the node, then one entry for each index readdir listed,
\* named by the record's full name (Name: r.Info.Name).  The body never reads
\* offset or count, so they are no parameters here.
Readdir(l) ==
    LET i == info(l)
        ls == readdir(l)
    IN IF i.err # "nil" THEN [err |-> i.err, dirents |-> <<>>]
       ELSE IF ls.err # "nil" THEN [err |-> ls.err, dirents |-> <<>>]
       ELSE [err |-> "nil",
             dirents |-> <<Dirent(i.qid, <<".">>, l.path)>> \o
                 [k \in 1..Len(ls.list) |->
                     Dirent(info([path |-> ls.list[k]]).qid,
                            recs[ls.list[k] + 1], ls.list[k])]]

\* ------------------------------------------------- a client of the archive
sessionVars == <<envVars, sessVars, nsVars, worldVars, fsVars, workerVars,
                 panicked>>
nonArchiveVars == <<sessionVars, gaVars, cpuVars, restVars>>

\* func (s *CPIO9P) Attach(): &CPIO9PFID{fs: s, path: 0}
Archive_Attach ==
    /\ fid' = [path |-> 0]
    /\ arOp' = [kind |-> "Attach"]
    /\ arRes' = [err |-> "nil", file |-> [path |-> 0]]
    /\ UNCHANGED <<recs, m, nonArchiveVars>>

\* The client walks from the node it holds, and holds the new node if the
\* walk succeeded.
Archive_Walk ==
    /\ fid # NoNode
    /\ \E names \in SeqsUpTo(WalkNames, MaxWalk) :
         /\ arOp' = [kind |-> "Walk", from |-> fid, names |-> names]
         /\ arRes' = Walk(fid, names)
         /\ fid' = IF arRes'.err = "nil" THEN arRes'.file ELSE fid
    /\ UNCHANGED <<recs, m, nonArchiveVars>>

Archive_Open ==
    /\ fid # NoNode
    /\ \E mode \in OpenFlags :
         /\ arOp' = [kind |-> "Open", from |-> fid, mode |-> mode]
         /\ arRes' = Open(fid, mode)
    /\ UNCHANGED <<recs, m, fid, nonArchiveVars>>

\* Any of the mutating calls, with any arguments.
Archive_Mutate ==
    /\ fid # NoNode
    /\ \E kind \in Mutators :
         /\ arOp' = [kind |-> kind, from |-> fid]
         /\ arRes' = [err |-> MutatorErr(kind)]
    /\ UNCHANGED <<recs, m, fid, nonArchiveVars>>

\* The offsets and counts (in entries that fit) a client asks Readdir for.
ReaddirOffsets == {0, 1, 2}
ReaddirCounts == {1, 4}

Archive_Readdir ==
    /\ fid # NoNode
    /\ \E offset \in ReaddirOffsets, count \in ReaddirCounts :
         arOp' = [kind |-> "Readdir", from |-> fid, offset |-> offset,
                  count |-> count]
    /\ arRes' = Readdir(fid)
    /\ UNCHANGED <<recs, m, fid, nonArchiveVars>>

ArchiveNext ==
    \/ Archive_Attach
    \/ Archive_Walk
    \/ Archive_Open
    \/ Archive_Mutate
    \/ Archive_Readdir

\* The archive backend serving one client, for every archive it can open; the
\* session beside it sets up no namespace.
InitAR ==
    /\ InitSession
    /\ ~CPUNONCE /\ ~CPUD_FUSE /\ binds = <<>> /\ ~fail
    /\ \E rs \in Archives : NewCPIO9P(rs)
    /\ BackendAtRest /\ CPU9PUnused

SpecAR == InitAR /\ [][ArchiveNext]_vars

\* -------------------------------------------------- archive backend: claims
\* The name of the record a node is bound to.
RecName(f) == recs[f.path + 1]

RECURSIVE JoinAll(_, _)
\* The path composed from p and a list of names, one Join at a time.
JoinAll(p, names) ==
    IF names = <<>> THEN p ELSE JoinAll(Join(p, Head(names)), Tail(names))

\* Every successive composed path is in the name index.
AllPresent(f, names) ==
    \A k \in 1..Len(names) : JoinAll(RecName(f), SubSeq(names, 1, k)) \in DOMAIN m

\* The position of the first name whose composed path the index lacks.
FirstMiss(f, names) ==
    CHOOSE k \in 1..Len(names) :
        /\ JoinAll(RecName(f), SubSeq(names, 1, k)) \notin DOMAIN m
        /\ AllPresent(f, SubSeq(names, 1, k - 1))

\* The records that are direct children of the node's record.
DirectChildren(f) ==
    {i \in 0..(Len(recs) - 1) :
        /\ Len(recs[i + 1]) = Len(RecName(f)) + 1
        /\ SubSeq(recs[i + 1], 1, Len(RecName(f))) = RecName(f)}

\* C16: no call changes the record list or the name index, which stays the
\* index of that list; an Open in a mode other than read-only fails with
\* PermissionDenied; every mutating call fails with PermissionDenied or
\* NotSupported.
C16_ArchiveIsImmutable ==
    [][/\ recs' = recs
       /\ m' = m
       /\ m' = BuildIndex(recs')
       /\ (arOp'.kind = "Open" /\ arOp'.mode # "ReadOnly")
            => arRes'.err = ErrPermission
       /\ arOp'.kind \in Mutators => arRes'.err \in {ErrPermission, ENOSYS}]_vars

\* A read-write Open was refused on a node below the root.
C16_Witness ==
    /\ arOp.kind = "Open" /\ arOp.mode = "ReadWrite"
    /\ arOp.from.path > 0
    /\ arRes.err = ErrPermission

\* C17: a Walk over a non-empty name list all of whose composed paths are
\* indexed succeeds with one QID per name and a node bound to the record named
\* by the fully composed path; and walking names and then more from the node
\* returned ends where walking names followed by more in one call ends.
C17_WalkResolvesComposedPath ==
    (arOp.kind = "Walk" /\ arOp.names # <<>> /\ AllPresent(arOp.from, arOp.names))
    => /\ arRes.err = "nil"
       /\ Len(arRes.qids) = Len(arOp.names)
       /\ arRes.file # NoNode
       /\ RecName(arRes.file) = JoinAll(RecName(arOp.from), arOp.names)
       /\ \A more \in SeqsUpTo(WalkNames, MaxWalk) :
            LET whole == Walk(arOp.from, arOp.names \o more)
                rest == Walk(arRes.file, more)
            IN whole.err = rest.err /\ whole.file = rest.file

\* A Walk of two names down from the root record "." resolved.
C17_Witness ==
    /\ arOp.kind = "Walk" /\ arOp.names = <<"b", "c">>
    /\ RecName(arOp.from) = <<>>
    /\ arRes.err = "nil" /\ RecName(arRes.file) = <<"b", "c">>

\* C18: a Walk one of whose composed paths is not indexed fails with NotExist
\* and returns no QIDs and no node; it looks no name up after the first miss;
\* and the client's node is the one it walked from.
C18_WalkMissAbortsWhole ==
    (arOp.kind = "Walk" /\ ~AllPresent(arOp.from, arOp.names))
    => /\ arRes.err = ErrNotExist
       /\ arRes.qids = <<>>
       /\ arRes.file = NoNode
       /\ arRes.examined = FirstMiss(arOp.from, arOp.names)
       /\ fid = arOp.from

\* The first of two names resolved and the second did not.
C18_Witness ==
    /\ arOp.kind = "Walk" /\ Len(arOp.names) = 2
    /\ AllPresent(arOp.from, SubSeq(arOp.names, 1, 1))
    /\ arRes.err = ErrNotExist /\ arRes.examined = 2

\* C19: the QID path a one-name Walk reports for the component equals the
\* QID path the node it returned reports for itself, and two names resolved
\* from the same node report the same QID path exactly when they resolve to
\* the same record.
C19_SelfIdentificationConsistent ==
    (arOp.kind = "Walk" /\ Len(arOp.names) = 1 /\ arRes.err = "nil")
    => /\ arRes.qids[1].Path = Walk(arRes.file, <<>>).qids[1].Path
       /\ \A nm \in WalkNames :
            LET o == Walk(arOp.from, <<nm>>)
            IN o.err = "nil" =>
                 ((o.file = arRes.file) <=> (o.qids[1].Path = arRes.qids[1].Path))

\* The archive starts with its root record "." and no name occurs twice.
RootedDistinct ==
    /\ recs[1] = <<>>
    /\ \A i, j \in 1..Len(recs) : recs[i] = recs[j] => i = j

\* C20: in an archive that starts with its root and repeats no name, whatever
\* the order of its other records, Readdir returns the node's own "." entry
\* first, and after it exactly one entry for each record that is a direct
\* child of the node, and no other.
C20_ReaddirListsDirectChildren ==
    (RootedDistinct /\ arOp.kind = "Readdir" /\ arRes.err = "nil")
    => LET d == arRes.dirents
       IN /\ Len(d) >= 1
          /\ d[1].Name = <<".">> /\ d[1].Offset = arOp.from.path
          /\ {d[j].Offset : j \in 2..Len(d)} = DirectChildren(arOp.from)
          /\ Len(d) = 1 + Cardinality(DirectChildren(arOp.from))

\* The last component of a path.
Base(p) == p[Len(p)]

\* C21: every entry Readdir returns for a direct child of the node is named
\* by one path component, the last of the child's archive path.
C21_ReaddirNamesAreRelative ==
    (arOp.kind = "Readdir" /\ arRes.err = "nil")
    => \A j \in 2..Len(arRes.dirents) :
         LET e == arRes.dirents[j]
         IN e.Offset \in DirectChildren(arOp.from)
              => (Len(e.Name) = 1 /\ e.Name = <<Base(recs[e.Offset + 1])>>)

\* What Readdir would return with no offset and no limit.
AllDirents(f) == Readdir(f).dirents

\* C22: Readdir(offset, count) returns the entries of the full listing from
\* position offset on, at most count of them: none from before offset, and
\* none at all when offset is at or past the end.
C22_ReaddirHonorsOffsetAndCount ==
    (arOp.kind = "Readdir" /\ arRes.err = "nil")
    => LET all == AllDirents(arOp.from)
           last == IF arOp.offset + arOp.count < Len(all)
                     THEN arOp.offset + arOp.count ELSE Len(all)
       IN /\ arRes.dirents = SubSeq(all, arOp.offset + 1, last)
          /\ arOp.offset >= Len(all) => arRes.dirents = <<>>

\* The QIDs a call returned.
ReturnedQIDs ==
    CASE arOp.kind = "Walk" -> {arRes.qids[i] : i \in 1..Len(arRes.qids)}
      [] arOp.kind = "Open" -> {arRes.qid}
      [] arOp.kind = "Readdir" ->
            {arRes.dirents[i].QID : i \in 1..Len(arRes.dirents)}
      [] OTHER -> {}

\* C23: every QID a successful call returns for a record that is a directory
\* has the directory bit, and so has the type of its Readdir entry.
C23_DirectoryQIDsHaveDirBit ==
    /\ (arOp.kind \in {"Walk", "Open", "Readdir"} /\ arRes.err = "nil")
         => \A q \in ReturnedQIDs :
              recs[q.Path + 1] \in ArchiveDirs => q.Type = TypeDir
    /\ (arOp.kind = "Readdir" /\ arRes.err = "nil")
         => \A i \in 1..Len(arRes.dirents) :
              recs[arRes.dirents[i].Offset + 1] \in ArchiveDirs
                => arRes.dirents[i].Type = TypeDir

\* ============================================ gateway: releasing a handle
\* The handles the kernel holds: those an OpenDir reply gave it.
HandlesGiven ==
    {resp[v].child : v \in {x \in Workers : /\ pc[x] = "done"
                                            /\ op[x].kind = "OpenDir"
                                            /\ resp[x].err = "nil"}}

\* func (fs *P9FS) ReleaseDirHandle(ctx, op) error { return fuse.ENOSYS }
\* The kernel releases a handle an OpenDir reply gave it; the handler is one
\* statement.
ReleaseDirHandle(w) ==
    /\ Alive /\ serving
    /\ pc[w] = "new"
    /\ \A v \in Workers : v < w => pc[v] # "new"
    /\ \E h \in HandlesGiven :
         op' = [op EXCEPT ![w] = [kind |-> "ReleaseDirHandle", arg |-> h,
                                  off |-> 0]]
    /\ Reply(w, [Ok EXCEPT !.err = ENOSYS])
    /\ UNCHANGED <<envVars, sessVars, nsVars, worldVars, fsVars, panicked>>
    /\ UNCHANGED nonSessionVars

\* The gateway with a kernel that also releases directory handles.
NextGR ==
    \/ NextGW
    \/ \E w \in Workers : ReleaseDirHandle(w)

SpecGR == InitGW /\ [][NextGR]_vars

\* C29: releasing handle h removes its entry: when the release of h has been
\* answered, the handle map has no entry for h.
C29_ReleaseRemovesHandleEntry ==
    [][\A w \in Workers :
         (pc[w] = "new" /\ pc'[w] = "done"
            /\ op'[w].kind = "ReleaseDirHandle")
           => op'[w].arg \notin DOMAIN openfile']_vars

\* ============================================ gateway: attribute requests
\* The sizes a backing object can have.
Sizes == {0, 1}

\* The object behind QID path q changes on the server side (the remote
\* process, or anyone else there, writes it).
BackendChange ==
    /\ Alive /\ serving
    /\ \E q \in QPaths :
         \E s \in Sizes \ {backend[q]} :
           backend' = [backend EXCEPT ![q] = s]
    /\ UNCHANGED <<envVars, sessVars, nsVars, worldVars, fsVars, workerVars,
                   panicked, arVars, fetches, now, mtime, cpuVars, restVars>>

\* The requests that put an inode in the map and ask for its attributes.
AttrRequests ==
    [kind : {"LookUpInode", "GetInodeAttributes"}, arg : InodeIDs, off : {0}]

\* The gateway under a kernel that looks inodes up and asks for their
\* attributes, over a backend whose objects change.
NextGA ==
    \/ NamespaceSetup
    \/ Namespace_Return
    \/ \E w \in Workers : DispatchFrom(w, AttrRequests)
    \/ \E w \in Workers : LookUpInode_Lock(w)
    \/ \E w \in Workers : LookUpInode_Find(w)
    \/ \E w \in Workers : LookUpInode_WalkGetAttr(w)
    \/ \E w \in Workers : LookUpInode_Commit(w)
    \/ \E w \in Workers : GetInodeAttributes_Lock(w)
    \/ \E w \in Workers : GetInodeAttributes_Find(w)
    \/ \E w \in Workers : GetInodeAttributes_GetAttr(w)
    \/ BackendChange

SpecGA == InitGW /\ [][NextGA]_vars

FileNames == {"d", "n"}
\* The name the client gives what it makes.
NewNames == {"n"}
\* The name lists the client walks: none, one that is there at the start,
\* one that is not, and two.
WalkLists == {<<>>, <<"d">>, <<"n">>, <<"d", "n">>}
MaxNodes == 2
MaxDepth == 2

nonCPU9PVars == <<sessionVars, arVars, gaVars, restVars>>

\* &CPU9P{path: p}
NewNode(p) == [path |-> p, file |-> "nil"]

Parent(p) == SubSeq(p, 1, Len(p) - 1)

\* os.Lstat(p): nil when p names an object; else the error of the first
\* component that cannot be passed (missing, a file, or a symlink that, as
\* every symlink here, points at itself).
Lstat(t, p) ==
    IF p \in DOMAIN t THEN "nil"
    ELSE LET stop == {k \in 0..(Len(p) - 1) :
                        ~(SubSeq(p, 1, k) \in DOMAIN t
                          /\ t[SubSeq(p, 1, k)] = "dir")}
         IN IF stop = {} THEN ErrNotExist
            ELSE LET q == SubSeq(p, 1, CHOOSE x \in stop :
                                         \A y \in stop : x <= y)
                 IN IF q \notin DOMAIN t THEN ErrNotExist
                    ELSE IF t[q] = "symlink" THEN "ELOOP"
                    ELSE "ENOTDIR"

\* func (l *CPU9P) info(): l.file.Stat() when the node is open, else
\* os.Lstat(l.path).  Only the error is kept.
CPU9P_info(t, l) == IF l.file # "nil" THEN "nil" ELSE Lstat(t, l.path)

\* What a call of the os package returns: its error and the tree after it.
Made(e, t) == [err |-> e, tree |-> t]

\* The error of making a directory entry at p: its parent must be a
\* directory and p must be free ("nil" when the entry can be made).
EntryErr(t, p) ==
    IF Len(p) = 0 THEN "EEXIST"
    ELSE IF Lstat(t, Parent(p)) # "nil" THEN Lstat(t, Parent(p))
    ELSE IF t[Parent(p)] = "symlink" THEN "ELOOP"
    ELSE IF t[Parent(p)] # "dir" THEN "ENOTDIR"
    ELSE IF p \in DOMAIN t THEN "EEXIST"
    ELSE "nil"

HasChildren(t, p) == \E q \in DOMAIN t : Len(q) > 0 /\ Parent(q) = p

IsPrefix(a, b) == Len(a) <= Len(b) /\ SubSeq(b, 1, Len(a)) = a

\* os.Mkdir(p, perm), os.Symlink(oldname, p)
os_Make(t, p, kind) ==
    IF EntryErr(t, p) # "nil" THEN Made(EntryErr(t, p), t)
    ELSE Made("nil", MapPut(t, p, kind))

\* os.OpenFile(p, os.O_CREATE|flags, perm): an existing file is opened as it
\* is.
os_OpenFile_Create(t, p) ==
    LET e == EntryErr(t, p)
    IN IF e = "nil" THEN Made("nil", MapPut(t, p, "file"))
       ELSE IF e # "EEXIST" THEN Made(e, t)
       ELSE IF t[p] = "dir" THEN Made("EISDIR", t)
       ELSE IF t[p] = "symlink" THEN Made("ELOOP", t)
       ELSE Made("nil", t)

\* os.OpenFile(p, flags, 0)
os_OpenFile(t, p) ==
    IF Lstat(t, p) # "nil" THEN Lstat(t, p)
    ELSE IF t[p] = "symlink" THEN "ELOOP"
    ELSE "nil"

\* os.Link(old, p)
os_Link(t, old, p) ==
    IF Lstat(t, old) # "nil" THEN Made(Lstat(t, old), t)
    ELSE IF t[old] = "dir" THEN Made("EPERM", t)
    ELSE IF EntryErr(t, p) # "nil" THEN Made(EntryErr(t, p), t)
    ELSE Made("nil", MapPut(t, p, t[old]))

\* os.Remove(p)
os_Remove(t, p) ==
    IF Lstat(t, p) # "nil" THEN Made(Lstat(t, p), t)
    ELSE IF t[p] = "dir" /\ HasChildren(t, p) THEN Made("ENOTEMPTY", t)
    ELSE Made("nil", [x \in (DOMAIN t) \ {p} |-> t[x]])

\* os.Rename(old, new): the object at old, with all below it, moves to new,
\* replacing a file or an empty directory there.
os_Rename(t, old, new) ==
    IF Lstat(t, old) # "nil" THEN Made(Lstat(t, old), t)
    ELSE IF old = new THEN Made("nil", t)
    ELSE IF EntryErr(t, new) \notin {"nil", "EEXIST"}
      THEN Made(EntryErr(t, new), t)
    ELSE IF t[old] = "dir" /\ IsPrefix(old, new) THEN Made("EINVAL", t)
    ELSE IF new \in DOMAIN t /\ t[old] = "dir" /\ t[new] # "dir"
      THEN Made("ENOTDIR", t)
    ELSE IF new \in DOMAIN t /\ t[old] # "dir" /\ t[new] = "dir"
      THEN Made("EISDIR", t)
    ELSE IF new \in DOMAIN t /\ HasChildren(t, new) THEN Made("ENOTEMPTY", t)
    ELSE LET moving == {q \in DOMAIN t : IsPrefix(old, q)}
             to(q) == new \o SubSeq(q, Len(old) + 1, Len(q))
             staying == ((DOMAIN t) \ moving) \ {new}
         IN Made("nil",
                 [x \in staying \cup {to(q) : q \in moving} |->
                    IF x \in staying THEN t[x]
                    ELSE t[CHOOSE q \in moving : to(q) = x]])

RECURSIVE CPU9P_WalkLoop(_, _, _)
\* for _, name := range names {
\*     c := &CPU9P{path: filepath.Join(last.path, name)}
\*     qid, fi, err := c.info(); if err != nil { return nil, nil, err }
\*     last = c }
CPU9P_WalkLoop(t, last, names) ==
    IF names = <<>> THEN [err |-> "nil", path |-> last]
    ELSE LET c == Join(last, Head(names))
         IN IF Lstat(t, c) # "nil" THEN [err |-> Lstat(t, c), path |-> <<>>]
            ELSE CPU9P_WalkLoop(t, c, Tail(names))

\* What Walk(names) from a node at path p finds: the error, or the path of
\* the node it returns.
\*   last := &CPU9P{path: l.path}
\*   if len(names) == 0 { c := &CPU9P{path: last.path}; _, _, err := c.info();
\*       if err != nil { return nil, nil, err }; return qids, last, nil }
CPU9P_WalkTo(t, p, names) ==
    IF names = <<>>
      THEN [err |-> Lstat(t, p), path |-> IF Lstat(t, p) = "nil" THEN p ELSE <<>>]
      ELSE CPU9P_WalkLoop(t, p, names)

\* A call and its answer, as the client sees them.
FsCall(kind, n, names, other) ==
    [kind |-> kind, node |-> n, names |-> names, other |-> other]
FsAnswer(e, n) == [err |-> e, node |-> n]

NodeIds == 1..Len(nodes)
Within(p) == Len(p) <= MaxDepth

\* The tree NewCPU9P(root) is given: the root, a directory "d" in it, and a
\* file "n" in that.
InitFS ==
    /\ InitSession
    /\ ~CPUNONCE /\ ~CPUD_FUSE /\ binds = <<>> /\ ~fail
    /\ ArchiveUnopened /\ BackendAtRest
    /\ tree = (<<>> :> "dir") @@ (<<"d">> :> "dir") @@ (<<"d", "n">> :> "file")
    /\ nodes = <<>>
    /\ osfile = NoCall
    /\ fsOp = NoCall
    /\ fsRes = NoCall

\* func (l *CPU9P) Attach(): return &CPU9P{path: l.path}, nil
CPU9P_Attach ==
    /\ Len(nodes) < MaxNodes
    /\ nodes' = Append(nodes, NewNode(<<>>))
    /\ fsOp' = FsCall("Attach", 0, <<>>, 0)
    /\ fsRes' = FsAnswer("nil", Len(nodes) + 1)
    /\ UNCHANGED <<tree, osfile, nonCPU9PVars>>

\* A Walk that, asked for no names, hands back the node it was called on.
CPU9P_Walk_EmptyReturnsSelf(n, names) ==
    /\ fsOp' = FsCall("Walk", n, names, 0)
    /\ LET r == CPU9P_WalkTo(tree, nodes[n].path, names)
       IN IF r.err # "nil"
            THEN fsRes' = FsAnswer(r.err, 0) /\ UNCHANGED nodes
          ELSE IF names = <<>>
            THEN fsRes' = FsAnswer("nil", n) /\ UNCHANGED nodes
          ELSE /\ Len(nodes) < MaxNodes
               /\ nodes' = Append(nodes, NewNode(r.path))
               /\ fsRes' = FsAnswer("nil", Len(nodes) + 1)
    /\ UNCHANGED <<tree, osfile, nonCPU9PVars>>

\* func (l *CPU9P) Walk(names []string) ([]p9.QID, p9.File, error)
\* The node returned is the one allocated last in the loop (or `last` itself
\* when names is empty); the other nodes the loop makes are garbage.
CPU9P_Walk(n, names) ==
    /\ fsOp' = FsCall("Walk", n, names, 0)
    /\ LET r == CPU9P_WalkTo(tree, nodes[n].path, names)
       IN IF r.err # "nil"
            THEN fsRes' = FsAnswer(r.err, 0) /\ UNCHANGED nodes
            ELSE /\ Len(nodes) < MaxNodes
                 /\ nodes' = Append(nodes, NewNode(r.path))
                 /\ fsRes' = FsAnswer("nil", Len(nodes) + 1)
    /\ UNCHANGED <<tree, osfile, nonCPU9PVars>>

\* func (l *CPU9P) Open(mode p9.OpenFlags): info, then os.OpenFile(l.path,
\* flags, 0), then l.file = f.
CPU9P_Open(n) ==
    /\ fsOp' = FsCall("Open", n, <<>>, 0)
    /\ LET e == IF CPU9P_info(tree, nodes[n]) # "nil"
                  THEN CPU9P_info(tree, nodes[n])
                  ELSE os_OpenFile(tree, nodes[n].path)
       IN /\ fsRes' = FsAnswer(e, 0)
          /\ nodes' = IF e = "nil" THEN [nodes EXCEPT ![n].file = "open"]
                      ELSE nodes
    /\ UNCHANGED <<tree, osfile, nonCPU9PVars>>

\* func (l *CPU9P) Create(name, mode, permissions, _, _): os.OpenFile with
\* O_CREATE, then l2 := &CPU9P{path: filepath.Join(l.path, name), file: f}.
CPU9P_Create(n, name) ==
    /\ Within(Join(nodes[n].path, name))
    /\ fsOp' = FsCall("Create", n, <<name>>, 0)
    /\ LET r == os_OpenFile_Create(tree, Join(nodes[n].path, name))
       IN /\ tree' = r.tree
          /\ IF r.err # "nil"
               THEN fsRes' = FsAnswer(r.err, 0) /\ UNCHANGED nodes
               ELSE /\ Len(nodes) < MaxNodes
                    /\ nodes' = Append(nodes,
                                       [path |-> Join(nodes[n].path, name),
                                        file |-> "open"])
                    /\ fsRes' = FsAnswer("nil", Len(nodes) + 1)
    /\ UNCHANGED <<osfile, nonCPU9PVars>>

\* A call that changes the tree (or fails) and neither makes nor changes a
\* node.
OsCall(call, r) ==
    /\ fsOp' = call
    /\ fsRes' = FsAnswer(r.err, 0)
    /\ tree' = r.tree
    /\ UNCHANGED <<nodes, osfile, nonCPU9PVars>>

\* func (l *CPU9P) Mkdir(name, ...): os.Mkdir(filepath.Join(l.path, name), ..)
CPU9P_Mkdir(n, name) ==
    /\ Within(Join(nodes[n].path, name))
    /\ OsCall(FsCall("Mkdir", n, <<name>>, 0),
              os_Make(tree, Join(nodes[n].path, name), "dir"))

\* func (l *CPU9P) Symlink(oldname, newname, ...):
\* os.Symlink(oldname, filepath.Join(l.path, newname)), with oldname = newname
CPU9P_Symlink(n, name) ==
    /\ Within(Join(nodes[n].path, name))
    /\ OsCall(FsCall("Symlink", n, <<name>>, 0),
              os_Make(tree, Join(nodes[n].path, name), "symlink"))

\* func (l *CPU9P) Link(target, newname):
\* os.Link(target.(*CPU9P).path, filepath.Join(l.path, newname))
CPU9P_Link(n, target, name) ==
    /\ Within(Join(nodes[n].path, name))
    /\ OsCall(FsCall("Link", n, <<name>>, target),
              os_Link(tree, nodes[target].path, Join(nodes[n].path, name)))

\* func (l *CPU9P) UnlinkAt(name, flags): os.Remove(filepath.Join(l.path, name))
CPU9P_UnlinkAt(n, name) ==
    OsCall(FsCall("UnlinkAt", n, <<name>>, 0),
           os_Remove(tree, Join(nodes[n].path, name)))

\* func (*CPU9P) Mknod(...): return p9.QID{}, syscall.ENOSYS
CPU9P_Mknod(n, name) ==
    OsCall(FsCall("Mknod", n, <<name>>, 0), Made(ENOSYS, tree))

\* func (*CPU9P) Rename(directory, name): return syscall.ENOSYS
CPU9P_Rename(n, directory, name) ==
    OsCall(FsCall("Rename", n, <<name>>, directory), Made(ENOSYS, tree))

\* func (l *CPU9P) RenameAt(oldName, newDir, newName):
\* os.Rename(path.Join(l.path, oldName), path.Join(nd.path, newName))
CPU9P_RenameAt(n, oldName, newDir, newName) ==
    LET r == os_Rename(tree, Join(nodes[n].path, oldName),
                       Join(nodes[newDir].path, newName))
    IN /\ \A q \in DOMAIN r.tree : Within(q)
       /\ OsCall(FsCall("RenameAt", n, <<oldName, newName>>, newDir), r)

\* A Renamed that also drops the node's open file.
CPU9P_Renamed_DropsFile(n, parent, newName) ==
    /\ Within(Join(nodes[parent].path, newName))
    /\ fsOp' = FsCall("Renamed", n, <<newName>>, parent)
    /\ fsRes' = FsAnswer("nil", 0)
    /\ nodes' = [nodes EXCEPT ![n] = NewNode(Join(nodes[parent].path, newName))]
    /\ UNCHANGED <<tree, osfile, nonCPU9PVars>>

\* func (l *CPU9P) Renamed(parent, newName):
\* l.path = filepath.Join(parent.(*CPU9P).path, newName)
CPU9P_Renamed(n, parent, newName) ==
    /\ Within(Join(nodes[parent].path, newName))
    /\ fsOp' = FsCall("Renamed", n, <<newName>>, parent)
    /\ fsRes' = FsAnswer("nil", 0)
    /\ nodes' = [nodes EXCEPT ![n].path = Join(nodes[parent].path, newName)]
    /\ UNCHANGED <<tree, osfile, nonCPU9PVars>>

NextFS ==
    \/ CPU9P_Attach
    \/ \E n \in NodeIds, names \in WalkLists :
         CPU9P_Walk(n, names)
    \/ \E n \in NodeIds : CPU9P_Open(n)
    \/ \E n \in NodeIds, name \in NewNames : CPU9P_Create(n, name)
    \/ \E n \in NodeIds, name \in NewNames : CPU9P_Mkdir(n, name)
    \/ \E n \in NodeIds, name \in NewNames : CPU9P_Symlink(n, name)
    \/ \E n \in NodeIds, target \in NodeIds, name \in NewNames :
         CPU9P_Link(n, target, name)
    \/ \E n \in NodeIds, name \in FileNames : CPU9P_UnlinkAt(n, name)
    \/ \E n \in NodeIds, name \in NewNames : CPU9P_Mknod(n, name)
    \/ \E n \in NodeIds, directory \in NodeIds, name \in NewNames :
         CPU9P_Rename(n, directory, name)
    \/ \E n \in NodeIds, newDir \in NodeIds, oldName \in FileNames,
          newName \in NewNames : CPU9P_RenameAt(n, oldName, newDir, newName)
    \/ \E n \in NodeIds, parent \in NodeIds, newName \in NewNames :
         CPU9P_Renamed(n, parent, newName)

SpecFS == InitFS /\ [][NextFS]_vars

\* ---------------------------------------- real-filesystem backend: claims
MutatorKinds ==
    {"Create", "Mkdir", "Symlink", "Link", "Mknod", "Rename", "RenameAt",
     "UnlinkAt"}

\* The host would carry the mutation a call asks for out: the os call for it,
\* made on tree t at the path composed from the node's path and the name,
\* succeeds.
HostPermits(call, t, ns) ==
    LET at == Join(ns[call.node].path, call.names[1])
    IN CASE call.kind \in {"Mkdir", "Symlink", "Mknod"} -> EntryErr(t, at) = "nil"
         [] call.kind = "Create" -> os_OpenFile_Create(t, at).err = "nil"
         [] call.kind = "Link" -> os_Link(t, ns[call.other].path, at).err = "nil"
         [] call.kind = "UnlinkAt" -> os_Remove(t, at).err = "nil"
         [] call.kind = "RenameAt" ->
              os_Rename(t, at, Join(ns[call.other].path, call.names[2])).err
                = "nil"
         [] call.kind = "Rename" ->
              os_Rename(t, ns[call.node].path,
                        Join(ns[call.other].path, call.names[1])).err = "nil"

\* A Walk in tree t from the node at path p finds name.
Finds(t, p, name) == CPU9P_WalkTo(t, p, <<name>>).err = "nil"

\* The mutation a call asked for shows in tree t to a Walk.
Visible(call, t, ns) ==
    LET p == ns[call.node].path
    IN CASE call.kind \in {"Create", "Mkdir", "Symlink", "Link", "Mknod"} ->
              Finds(t, p, call.names[1])
         [] call.kind = "UnlinkAt" -> ~Finds(t, p, call.names[1])
         [] call.kind = "RenameAt" ->
              /\ Finds(t, ns[call.other].path, call.names[2])
              /\ Join(p, call.names[1])
                   # Join(ns[call.other].path, call.names[2])
                   => ~Finds(t, p, call.names[1])
         [] call.kind = "Rename" ->
              Finds(t, ns[call.other].path, call.names[1])

\* C27: each of the eight mutating calls, made where the host permits the
\* mutation, succeeds and leaves the tree changed at the path composed from
\* the node's path and the name, as a Walk from the same node then shows.
C27_MutatorsMutateTheTree ==
    [][(fsOp'.kind \in MutatorKinds /\ HostPermits(fsOp', tree, nodes))
         => /\ fsRes'.err = "nil"
            /\ Visible(fsOp', tree', nodes)]_vars

\* ------------------------------------------- nodes, on either backend
\* A client that attaches, walks, opens and is told of renames, with the
\* nodes it was handed kept in the heap.  The server is one backend or the
\* other: CPU9P on the tree of InitFS, or CPIO9P on a three-record archive.

\* func (s *CPIO9P) Attach(): return &CPIO9PFID{fs: s, path: 0}, nil
CPIO9PFID_Attach ==
    /\ Len(nodes) < MaxNodes
    /\ nodes' = Append(nodes, [path |-> 0])
    /\ fsOp' = FsCall("Attach", 0, <<>>, 0)
    /\ fsRes' = FsAnswer("nil", Len(nodes) + 1)
    /\ UNCHANGED <<tree, osfile, nonCPU9PVars>>

\* func (l *CPIO9PFID) Walk(names []string): the node returned is
\* last := &CPIO9PFID{path: l.path, fs: l.fs}, moved by the loop.
CPIO9PFID_Walk(n, names) ==
    /\ fsOp' = FsCall("Walk", n, names, 0)
    /\ LET r == Walk(nodes[n], names)
       IN IF r.err # "nil"
            THEN fsRes' = FsAnswer(r.err, 0) /\ UNCHANGED nodes
            ELSE /\ Len(nodes) < MaxNodes
                 /\ nodes' = Append(nodes, r.file)
                 /\ fsRes' = FsAnswer("nil", Len(nodes) + 1)
    /\ UNCHANGED <<tree, osfile, nonCPU9PVars>>

\* func (l *CPIO9PFID) Open(mode p9.OpenFlags): nothing is stored in l.
CPIO9PFID_Open(n, mode) ==
    /\ fsOp' = FsCall("Open", n, <<>>, 0)
    /\ fsRes' = FsAnswer(Open(nodes[n], mode).err, 0)
    /\ UNCHANGED <<tree, nodes, osfile, nonCPU9PVars>>

\* func (l *CPIO9PFID) Renamed(parent p9.File, newName string) { }
CPIO9PFID_Renamed(n, parent, newName) ==
    /\ fsOp' = FsCall("Renamed", n, <<newName>>, parent)
    /\ fsRes' = FsAnswer("nil", 0)
    /\ UNCHANGED <<tree, nodes, osfile, nonCPU9PVars>>

InitNodes ==
    /\ InitSession
    /\ ~CPUNONCE /\ ~CPUD_FUSE /\ binds = <<>> /\ ~fail
    /\ BackendAtRest
    /\ \/ /\ ArchiveUnopened
          /\ tree = (<<>> :> "dir") @@ (<<"d">> :> "dir")
                      @@ (<<"d", "n">> :> "file")
       \/ /\ NewCPIO9P(<< <<>>, <<"b">>, <<"b", "c">> >>)
          /\ tree = EmptyMap
    /\ nodes = <<>>
    /\ osfile = NoCall
    /\ fsOp = NoCall
    /\ fsRes = NoCall

OnCPU9P == recs = <<>>

NextNodes ==
    \/ OnCPU9P /\ CPU9P_Attach
    \/ OnCPU9P /\ \E n \in NodeIds, names \in WalkLists :
                    CPU9P_Walk(n, names)
    \/ OnCPU9P /\ \E n \in NodeIds : CPU9P_Open(n)
    \/ OnCPU9P /\ \E n \in NodeIds, parent \in NodeIds, newName \in NewNames :
                    CPU9P_Renamed(n, parent, newName)
    \/ ~OnCPU9P /\ CPIO9PFID_Attach
    \/ ~OnCPU9P /\ \E n \in NodeIds, names \in SeqsUpTo(WalkNames, MaxWalk) :
                     CPIO9PFID_Walk(n, names)
    \/ ~OnCPU9P /\ \E n \in NodeIds, mode \in OpenFlags :
                     CPIO9PFID_Open(n, mode)
    \/ ~OnCPU9P /\ \E n \in NodeIds, parent \in NodeIds, newName \in WalkNames :
                     CPIO9PFID_Renamed(n, parent, newName)

SpecNodes == InitNodes /\ [][NextNodes]_vars

C28_RenamedChangesOnlyPath ==
    [][fsOp'.kind = "Renamed"
         => /\ tree' = tree /\ recs' = recs /\ m' = m /\ osfile' = osfile
            /\ IF OnCPU9P
                 THEN nodes' = [nodes EXCEPT ![fsOp'.node].path =
                                  Join(nodes[fsOp'.other].path,
                                       fsOp'.names[1])]
                 ELSE nodes' = nodes]_vars

\* An open real-filesystem node that Renamed has moved to a path where the
\* tree has nothing.
C28_Witness ==
    /\ OnCPU9P
    /\ fsOp.kind = "Renamed"
    /\ nodes[fsOp.node].file = "open"
    /\ nodes[fsOp.node].path \notin DOMAIN tree

\* ----------------------------------- real-filesystem backend: file I/O
\* One node, opened on the file "d/n"; osfile is its l.file: the flags it was
\* opened with, the bytes the file holds and the file position.
MaxFileLen == 2
OpenModes == {"ReadOnly", "WriteOnly", "ReadWrite"}
\* errWriteAtInAppendMode of package os
ErrWriteAtInAppendMode ==
    "os: invalid use of WriteAt on file opened with O_APPEND"
\* What the host can fail a write with (or not: "nil").
HostErrs == {"nil", "ENOSPC"}
\* The buffers the client writes.
WriteBuffers == {<<0>>, <<1>>, <<1, 0>>}

\* data with b written over it from offset off on, a gap filled with zeros.
Overwrite(data, b, off) ==
    [i \in 1..(IF off + Len(b) > Len(data) THEN off + Len(b) ELSE Len(data))
       |-> IF i > off /\ i <= off + Len(b) THEN b[i - off]
           ELSE IF i <= Len(data) THEN data[i] ELSE 0]

\* What an os.File call returns, and the file after it.
Done(call, n, e, f) == [call |-> call, n |-> n, err |-> e, file |-> f]

\* func (f *File) WriteAt(b []byte, off int64): refused by the os package
\* itself on a file opened with O_APPEND, else pwrite(2), which the host may
\* fail with e.
File_WriteAt(f, b, off, e) ==
    IF f.append THEN Done("WriteAt", 0, ErrWriteAtInAppendMode, f)
    ELSE IF f.mode = "ReadOnly" THEN Done("WriteAt", 0, "EBADF", f)
    ELSE IF e # "nil" THEN Done("WriteAt", 0, e, f)
    ELSE Done("WriteAt", Len(b), "nil",
              [f EXCEPT !.data = Overwrite(@, b, off)])

\* func (f *File) Write(b []byte): write(2) at the file position, which with
\* O_APPEND is the end of the file.
File_Write(f, b, e) ==
    IF f.mode = "ReadOnly" THEN Done("Write", 0, "EBADF", f)
    ELSE IF e # "nil" THEN Done("Write", 0, e, f)
    ELSE LET at == IF f.append THEN Len(f.data) ELSE f.pos
         IN Done("Write", Len(b), "nil",
                 [f EXCEPT !.data = Overwrite(@, b, at), !.pos = at + Len(b)])

\* func (f *File) ReadAt(b []byte, off int64), len(b) = n: io.EOF when fewer
\* than n bytes are there.
File_ReadAt(f, n, off) ==
    IF f.mode = "WriteOnly" THEN [n |-> 0, err |-> "EBADF", data |-> <<>>]
    ELSE LET to == IF off + n > Len(f.data) THEN Len(f.data) ELSE off + n
             got == SubSeq(f.data, off + 1, to)
         IN [n |-> Len(got), err |-> IF Len(got) < n THEN "EOF" ELSE "nil",
             data |-> got]

\* The call before this one, as far as a later call is compared with it.
Prev ==
    IF fsOp.kind = "WriteAt"
      THEN [kind |-> "WriteAt", data |-> fsOp.data, off |-> fsOp.off,
            err |-> fsRes.err]
      ELSE [kind |-> fsOp.kind]

\* The os.File calls a WriteAt made: which, and what each returned.
Calls(cs) == [i \in 1..Len(cs) |-> [call |-> cs[i].call, n |-> cs[i].n,
                                    err |-> cs[i].err]]

\* A WriteAt that falls back to the sequential write after any error.
CPU9P_WriteAt_RetriesAnyError(p, offset) ==
    /\ \E e1 \in HostErrs, e2 \in HostErrs :
         LET first == File_WriteAt(osfile, p, offset, e1)
             retry == first.err # "nil"
             second == File_Write(osfile, p, e2)
             last == IF retry THEN second ELSE first
         IN /\ Len(last.file.data) <= MaxFileLen
            /\ osfile' = last.file
            /\ fsRes' = [n |-> last.n, err |-> last.err,
                         calls |-> Calls(IF retry THEN <<first, second>>
                                         ELSE <<first>>)]
    /\ fsOp' = [kind |-> "WriteAt", data |-> p, off |-> offset]
    /\ UNCHANGED <<tree, nodes, nonCPU9PVars>>

\* A WriteAt that always writes sequentially.
CPU9P_WriteAt_AlwaysSequential(p, offset) ==
    /\ \E e \in HostErrs :
         LET only == File_Write(osfile, p, e)
         IN /\ Len(only.file.data) <= MaxFileLen
            /\ osfile' = only.file
            /\ fsRes' = [n |-> only.n, err |-> only.err,
                         calls |-> Calls(<<only>>)]
    /\ fsOp' = [kind |-> "WriteAt", data |-> p, off |-> offset]
    /\ UNCHANGED <<tree, nodes, nonCPU9PVars>>

\* func (l *CPU9P) WriteAt(p []byte, offset int64) (int, error)
\*   n, err := l.file.WriteAt(p, int64(offset))
\*   if err != nil { if strings.Contains(err.Error(), "os: invalid use of
\*       WriteAt on file opened with O_APPEND") { return l.file.Write(p) } }
\*   return n, err
CPU9P_WriteAt(p, offset) ==
    /\ \E e1 \in HostErrs, e2 \in HostErrs :
         LET first == File_WriteAt(osfile, p, offset, e1)
             retry == first.err = ErrWriteAtInAppendMode
             second == File_Write(osfile, p, e2)
             last == IF retry THEN second ELSE first
         IN /\ Len(last.file.data) <= MaxFileLen
            /\ osfile' = last.file
            /\ fsRes' = [n |-> last.n, err |-> last.err,
                         calls |-> Calls(IF retry THEN <<first, second>>
                                         ELSE <<first>>)]
    /\ fsOp' = [kind |-> "WriteAt", data |-> p, off |-> offset]
    /\ UNCHANGED <<tree, nodes, nonCPU9PVars>>

\* func (l *CPU9P) ReadAt(p []byte, offset int64): l.file.ReadAt(p, offset)
CPU9P_ReadAt(n, offset) ==
    /\ fsOp' = [kind |-> "ReadAt", len |-> n, off |-> offset, prev |-> Prev]
    /\ fsRes' = File_ReadAt(osfile, n, offset)
    /\ UNCHANGED <<tree, nodes, osfile, nonCPU9PVars>>

\* A node on "d/n" after Open (or Create) gave it its file: opened in any
\* mode, with or without O_APPEND, the file empty or holding one byte.
InitRW ==
    /\ InitSession
    /\ ~CPUNONCE /\ ~CPUD_FUSE /\ binds = <<>> /\ ~fail
    /\ ArchiveUnopened /\ BackendAtRest
    /\ tree = (<<>> :> "dir") @@ (<<"d">> :> "dir") @@ (<<"d", "n">> :> "file")
    /\ nodes = <<[path |-> <<"d", "n">>, file |-> "open"]>>
    /\ \E mode \in OpenModes, append \in BOOLEAN, data \in SeqsUpTo(Bytes, 1) :
         osfile = [mode |-> mode, append |-> append, data |-> data, pos |-> 0]
    /\ fsOp = NoCall
    /\ fsRes = NoCall

NextRW ==
    \/ \E p \in WriteBuffers, offset \in 0..(MaxFileLen - 1) :
         CPU9P_WriteAt(p, offset)
    \/ \E n \in 1..MaxFileLen, offset \in 0..(MaxFileLen - 1) :
         CPU9P_ReadAt(n, offset)

SpecRW == InitRW /\ [][NextRW]_vars

\* A ReadAt that asks back exactly what the successful WriteAt before it
\* wrote.
ReadsBack ==
    /\ fsOp.kind = "ReadAt"
    /\ fsOp.prev.kind = "WriteAt" /\ fsOp.prev.err = "nil"
    /\ fsOp.off = fsOp.prev.off
    /\ fsOp.len = Len(fsOp.prev.data)

MaxTime == 1

\* The clock moves on.
Tick ==
    /\ now < MaxTime
    /\ now' = now + 1
    /\ UNCHANGED <<envVars, sessVars, nsVars, worldVars, fsVars, workerVars,
                   panicked, arVars, backend, fetches, mtime, cpuVars, restVars>>

\* The methods of P9FS whose body is `return fuse.ENOSYS`.
UnsupportedOps ==
    {"SetInodeAttributes", "ForgetInode", "BatchForget", "MkDir", "MkNode",
     "CreateFile", "CreateSymlink", "CreateLink", "Rename", "RmDir", "Unlink",
     "ReleaseDirHandle", "WriteFile", "SyncFile", "FlushFile",
     "ReleaseFileHandle", "ReadSymlink", "RemoveXattr", "GetXattr",
     "ListXattr", "SetXattr", "Fallocate"}

\* An unsupported method that, asked to release a directory handle, drops
\* the handle's entry.
Unsupported_ReleaseDeletes(w) ==
    /\ Alive /\ serving
    /\ pc[w] = "new"
    /\ \A v \in Workers : v < w => pc[v] # "new"
    /\ \E kind \in UnsupportedOps, arg \in {RootInodeID} :
         /\ op' = [op EXCEPT ![w] = [kind |-> kind, arg |-> arg, off |-> 0]]
         /\ openfile' = IF kind = "ReleaseDirHandle"
                          THEN [h \in (DOMAIN openfile) \ {arg} |-> openfile[h]]
                          ELSE openfile
    /\ Reply(w, [Ok EXCEPT !.err = ENOSYS])
    /\ UNCHANGED <<envVars, sessVars, nsVars, worldVars, serving, mu, inMap,
                   keepPageCache, rootFid, panicked>>
    /\ UNCHANGED nonSessionVars

\* func (fs *P9FS) SetInodeAttributes(ctx, op) error { return fuse.ENOSYS }
\* and the twenty-one methods like it: the kernel sends a request of one of
\* the kinds and the one statement answers it without reading what the
\* request names.
UnsupportedFrom(w, kinds) ==
    /\ Alive /\ serving
    /\ pc[w] = "new"
    /\ \A v \in Workers : v < w => pc[v] # "new"
    /\ \E kind \in kinds, arg \in {RootInodeID} :
         op' = [op EXCEPT ![w] = [kind |-> kind, arg |-> arg, off |-> 0]]
    /\ Reply(w, [Ok EXCEPT !.err = ENOSYS])
    /\ UNCHANGED <<envVars, sessVars, nsVars, worldVars, fsVars, panicked>>
    /\ UNCHANGED nonSessionVars

Unsupported(w) == UnsupportedFrom(w, UnsupportedOps)

\* The unsupported kinds whose reply has a field for an expiration.
ExpiringUnsupportedOps == {"SetInodeAttributes", "MkDir"}

\* The requests of the implemented kinds that name the root inode, or the
\* handle of the same number.
RootRequests == {r \in Requests : r.arg = RootInodeID /\ r.off = 0}

\* The requests that fill the inode map and the handle map.
MapRequests == {r \in RootRequests : r.kind \in {"LookUpInode", "OpenDir"}}

\* The gateway under a kernel that sends the unsupported requests next to
\* those that fill the maps; and under one that sends the implemented
\* requests and some unsupported ones as time passes.
NextGU ==
    \/ NamespaceSetup
    \/ Namespace_Return
    \/ \E w \in Workers : DispatchFrom(w, MapRequests)
    \/ \E w \in Workers : LookUpInode_Lock(w)
    \/ \E w \in Workers : LookUpInode_Find(w)
    \/ \E w \in Workers : LookUpInode_WalkGetAttr(w)
    \/ \E w \in Workers : LookUpInode_Commit(w)
    \/ \E w \in Workers : OpenDir_Find(w)
    \/ \E w \in Workers : OpenDir_Open(w)
    \/ \E w \in Workers : OpenDir_Record(w)
    \/ ConcurrentMapFatal
    \/ \E w \in Workers : Unsupported(w)

SpecGU == InitGW /\ [][NextGU]_vars

NextGX ==
    \/ NamespaceSetup
    \/ Namespace_Return
    \/ \E w \in Workers : DispatchFrom(w, RootRequests)
    \/ \E w \in Workers : LookUpInode_Lock(w)
    \/ \E w \in Workers : LookUpInode_Find(w)
    \/ \E w \in Workers : LookUpInode_WalkGetAttr(w)
    \/ \E w \in Workers : LookUpInode_Commit(w)
    \/ \E w \in Workers : GetInodeAttributes_Lock(w)
    \/ \E w \in Workers : GetInodeAttributes_Find(w)
    \/ \E w \in Workers : GetInodeAttributes_GetAttr(w)
    \/ \E w \in Workers : OpenDir_Find(w)
    \/ \E w \in Workers : OpenDir_Open(w)
    \/ \E w \in Workers : OpenDir_Record(w)
    \/ \E w \in Workers : ReadDir_Find(w)
    \/ \E w \in Workers : ReadDir_Readdir(w)
    \/ \E w \in Workers : OpenFile(w)
    \/ \E w \in Workers : ReadFile(w)
    \/ ConcurrentMapFatal
    \/ \E w \in Workers : UnsupportedFrom(w, ExpiringUnsupportedOps)
    \/ Tick

SpecGX == InitGW /\ [][NextGX]_vars

\* C31: the reply of a successful LookUpInode carries an entry expiration of
\* the time of the call plus lookupEntryTimeout and no attributes
\* expiration; that of a successful GetInodeAttributes an attributes
\* expiration of the time of the call plus getattrTimeout; every other reply
\* carries neither.
C31_OnlyLookupAndGetattrExpire ==
    [][\A w \in Workers :
         (pc[w] # "done" /\ pc'[w] = "done")
           => LET r == resp'[w]
              IN CASE op'[w].kind = "LookUpInode" /\ r.err = "nil" ->
                        /\ r.EntryExpiration = ExpiresAt(now, lookupEntryTimeout)
                        /\ r.AttributesExpiration = NoExpiration
                   [] op'[w].kind = "GetInodeAttributes" /\ r.err = "nil" ->
                        /\ r.AttributesExpiration = ExpiresAt(now, getattrTimeout)
                        /\ r.EntryExpiration = NoExpiration
                   [] OTHER ->
                        /\ r.EntryExpiration = NoExpiration
                        /\ r.AttributesExpiration = NoExpiration]_vars

\* A lookup and an attribute request answered at different times, and a
\* request of another kind answered too.
C31_Witness ==
    \E w1, w2 \in Workers :
        /\ pc[w1] = "done" /\ op[w1].kind = "LookUpInode" /\ resp[w1].err = "nil"
        /\ pc[w2] = "done" /\ op[w2].kind = "GetInodeAttributes"
        /\ resp[w2].err = "nil"
        /\ resp[w1].EntryExpiration # resp[w2].AttributesExpiration

\* C32: a request of an unsupported kind is answered with ENOSYS and nothing
\* else, whatever it names, with no backend call made and the inode map, the
\* handle map, mtime and keepPageCache as they were.
C32_UnsupportedChangeNothing ==
    [][\A w \in Workers :
         (pc[w] = "new" /\ pc'[w] = "done" /\ op'[w].kind \in UnsupportedOps)
           => /\ resp'[w] = [Ok EXCEPT !.err = ENOSYS]
              /\ UNCHANGED <<inMap, openfile, mtime, keepPageCache, fetches,
                             backend, rootFid, mu>>]_vars

\* The release of a directory handle that is in the handle map has been
\* answered.
C32_Witness ==
    \E w \in Workers :
        /\ pc[w] = "done" /\ op[w].kind = "ReleaseDirHandle"
        /\ resp[w].err = ENOSYS
        /\ op[w].arg \in DOMAIN openfile
        /\ DOMAIN inMap # {}

\* ============================================ two sessions in one process
\* The second Session's Namespace call.  It works on its own connection and
\* its own bind list; what it shares with the first is what belongs to the
\* process: the environment and the package variable FUSE.

\* nonce, ok := os.LookupEnv("CPUNONCE"); if !ok { return nil, nil }
Peer_LookupEnv ==
    /\ Alive /\ peer.pc = "start"
    /\ peer' = IF CPUNONCE THEN [peer EXCEPT !.nonce = TRUE, !.pc = "unsetenv"]
                           ELSE [peer EXCEPT !.pc = "done"]
    /\ UNCHANGED <<sessionVars, arVars, gaVars, cpuVars, environ, dirVars>>

\* os.Unsetenv("CPUNONCE")
Peer_Unsetenv ==
    /\ Alive /\ peer.pc = "unsetenv"
    /\ CPUNONCE' = FALSE
    /\ peer' = [peer EXCEPT !.pc = "connect"]
    /\ UNCHANGED <<CPUD_FUSE, FUSE, sessVars, nsVars, worldVars, fsVars,
                   workerVars, panicked, arVars, gaVars, cpuVars, environ, dirVars>>

\* net.Dial; fmt.Fprintf(so, "%s", nonce); so.(*net.TCPConn).File(): each
\* can fail and end the call with an error, the last after the nonce is
\* written.
Peer_Connect ==
    /\ Alive /\ peer.pc = "connect"
    /\ \E failing \in {"Dial", "Fprintf", "File", "none"} :
         peer' = [peer EXCEPT !.sent = failing \in {"File", "none"},
                              !.pc = IF failing = "none" THEN "mode"
                                                         ELSE "failed"]
    /\ UNCHANGED <<sessionVars, arVars, gaVars, cpuVars, environ, dirVars>>

\* if os.Getenv("CPUD_FUSE") != "" { FUSE = true }; if FUSE { ... } else { ... }
Peer_Mode ==
    /\ Alive /\ peer.pc = "mode"
    /\ FUSE' = (FUSE \/ CPUD_FUSE)
    /\ peer' = [peer EXCEPT !.mode = IF FUSE' THEN "fuse" ELSE "9p",
                            !.pc = "mount"]
    /\ UNCHANGED <<CPUNONCE, CPUD_FUSE, sessVars, nsVars, worldVars, fsVars,
                   workerVars, panicked, arVars, gaVars, cpuVars, environ, dirVars>>

\* The rest of the call: the mount of its root in the mode chosen and its
\* binds, on objects of its own; return warning, nil or return nil, err.
Peer_MountAndBind ==
    /\ Alive /\ peer.pc = "mount"
    /\ \E ok \in BOOLEAN :
         peer' = [peer EXCEPT !.pc = IF ok THEN "done" ELSE "failed"]
    /\ UNCHANGED <<sessionVars, arVars, gaVars, cpuVars, environ, dirVars>>

NextSS ==
    \/ NamespaceSetup
    \/ Namespace_Bind
    \/ Namespace_Return
    \/ Peer_LookupEnv
    \/ Peer_Unsetenv
    \/ Peer_Connect
    \/ Peer_Mode
    \/ Peer_MountAndBind

SpecSS == Init /\ [][NextSS]_vars

\* What a session's Namespace does when it is the only one to run in a
\* process started with the environment env and returns without an error.
SentAlone(env) == env.CPUNONCE
ModeAlone(env) ==
    IF ~env.CPUNONCE THEN "none" ELSE IF env.CPUD_FUSE THEN "fuse" ELSE "9p"

\* C33: the assemblers of two sessions share no state; each one that returns
\* without an error has sent the secret and selected the serving mode as it
\* would have with the other session absent.
C33_AssemblersShareNothing ==
    /\ peer.pc = "done"
         => /\ peer.sent = SentAlone(environ)
            /\ peer.mode = ModeAlone(environ)
    /\ (ns_pc = "done" /\ retErr = NilErr)
         => /\ (nonceWrites = 1) = SentAlone(environ)
            /\ rootfs = ModeAlone(environ)

\* ====================================================== reading directories
\* The width of uint64 and int, scaled down.
UintBits == 3
Uints == 0..(2^UintBits - 1)
\* int(offset): the same bits, read as a signed number.
int(u) == IF u >= 2^(UintBits - 1) THEN u - 2^UintBits ELSE u

\* Names a directory may hold, in the order ioutil.ReadDir sorts them, and
\* the directories made of them.
DirNames == <<"a", "bbbbbbbbb", "c">>
Listings ==
    {SelectSeq(DirNames, LAMBDA n : \E i \in S : DirNames[i] = n) :
        S \in SUBSET (1..Len(DirNames))}

\* func (l *CPU9P) Readdir(offset uint64, count uint32) (p9.Dirents, error):
\*   fi, err := ioutil.ReadDir(l.path)
\*   for i := int(offset); i < len(fi); i++ { ...
\*     dirents = append(dirents, p9.Dirent{..., Name: fi[i].Name(),
\*                                         Offset: uint64(i + 1)}) }
\* A negative i is below len(fi), and fi[i] is then an index out of range.
\* info() of an entry of an unchanged directory does not fail; the QID path
\* is the entry's inode, one per name.
CPU9P_Readdir(fi, offset) ==
    LET i0 == int(offset)
        n == IF i0 < Len(fi) THEN Len(fi) - i0 ELSE 0
    IN IF i0 < 0 THEN [err |-> "index out of range", dirents |-> <<>>]
       ELSE [err |-> "nil",
             dirents |-> [k \in 1..n |->
                            Dirent([Path |-> i0 + k, Type |-> TypeRegular],
                                   <<fi[i0 + k]>>, i0 + k)]]

\* The length of a name made of components: its bytes and the separators.
RECURSIVE NameLen(_)
NameLen(nm) ==
    IF nm = <<>> THEN 0
    ELSE Len(Head(nm)) + (IF Len(nm) > 1 THEN 1 + NameLen(Tail(nm)) ELSE 0)

\* fuseutil.WriteDirent(buf, d): the 24-byte header and the name, padded to
\* a multiple of 8; the number of bytes written, zero if they do not fit in
\* the room bytes of buf.
WriteDirent(room, fe) ==
    LET len == NameLen(fe.Name)
        padLen == IF len % 8 # 0 THEN 8 - (len % 8) ELSE 0
        totalLen == (8 + 8 + 4 + 4) + len + padLen
    IN IF totalLen > room THEN 0 ELSE totalLen

\* var tot int; for _, ent := range d { ...;
\*   n := fuseutil.WriteDirent(op.Dst[tot:], fe); tot += n }; op.BytesRead = tot
\* The entries that went into a Dst of size bytes, and tot.
RECURSIVE ReadDir_Loop(_, _, _)
ReadDir_Loop(d, size, tot) ==
    IF d = <<>> THEN [written |-> <<>>, tot |-> tot]
    ELSE LET n == WriteDirent(size - tot, Head(d))
             r == ReadDir_Loop(Tail(d), size, tot + n)
         IN [written |-> IF n > 0 THEN <<Head(d)>> \o r.written
                                  ELSE r.written,
             tot |-> r.tot]

\* cl.fid.Readdir(uint64(off), uint32(cl.unit)) on the backend served: the
\* archive's root when an archive is open, else the real directory.
Fid_Readdir(off) ==
    IF recs # <<>> THEN Readdir([path |-> 0]) ELSE CPU9P_Readdir(entries, off)

\* The sizes of the buffer the kernel reads directories into: room for any
\* one entry, for two short ones, for a short and a long one, for all.
DstSizes == {40, 64, 72, 104}

\* P9FS.OpenDir for the reader: the directory is opened and its handle
\* recorded; the kernel will read it into buffers of one size.
Reader_OpenDir ==
    /\ Alive /\ rd.pc = "closed"
    /\ \E size \in DstSizes : rd' = [rd EXCEPT !.pc = "reading", !.Dst = size]
    /\ UNCHANGED <<sessionVars, arVars, gaVars, cpuVars, peerVars, entries>>

\* How often the reader has seen each name, after it is handed ds more
\* (counted up to two).
Seen(seen, ds) ==
    LET names == {ds[k].Name : k \in 1..Len(ds)}
        count(nm) == Cardinality({k \in 1..Len(ds) : ds[k].Name = nm})
        before(nm) == IF nm \in DOMAIN seen THEN seen[nm] ELSE 0
    IN [nm \in DOMAIN seen \cup names |->
           IF before(nm) + count(nm) > 2 THEN 2 ELSE before(nm) + count(nm)]

\* P9FS.ReadDir, called by the kernel with the offset of the last entry it
\* was given (zero at first); an empty result ends the reading.
Reader_ReadDir ==
    /\ Alive /\ rd.pc = "reading"
    /\ \E res \in {Fid_Readdir(rd.Offset)} :
       \E out \in {ReadDir_Loop(res.dirents, rd.Dst, 0)} :
          IF res.err # "nil"
            THEN /\ panicked' = "NO readdir"
                 /\ UNCHANGED rd
            ELSE /\ rd' = [rd EXCEPT
                      !.d = res.dirents,
                      !.written = out.written,
                      !.BytesRead = out.tot,
                      !.seen = Seen(rd.seen, out.written),
                      !.Offset = IF out.written = <<>> THEN rd.Offset
                                 ELSE out.written[Len(out.written)].Offset,
                      !.pc = IF out.tot = 0 THEN "end" ELSE "reading"]
                 /\ UNCHANGED panicked
    /\ UNCHANGED <<envVars, sessVars, nsVars, worldVars, fsVars, workerVars,
                   arVars, gaVars, cpuVars, peerVars, entries>>

\* A 9P client that calls Readdir on the real directory with an offset of
\* its choice.
Client_Readdir ==
    /\ Alive /\ recs = <<>>
    /\ \E offset \in Uints :
         LET res == CPU9P_Readdir(entries, offset)
         IN /\ fsOp' = [kind |-> "Readdir", offset |-> offset]
            /\ IF res.err = "nil"
                 THEN /\ fsRes' = res
                      /\ UNCHANGED panicked
                 ELSE /\ panicked' = res.err
                      /\ UNCHANGED fsRes
    /\ UNCHANGED <<envVars, sessVars, nsVars, worldVars, fsVars, workerVars,
                   arVars, gaVars, tree, nodes, osfile, restVars>>

\* A directory of either backend, unchanged while it is read.
InitRD ==
    /\ InitSession
    /\ ~CPUNONCE /\ ~CPUD_FUSE /\ binds = <<>> /\ ~fail
    /\ backend = [q \in QPaths |-> 0]
    /\ fetches = [w \in Workers |-> 0]
    /\ now = 0
    /\ mtime = 0
    /\ CPU9PUnused
    /\ rd = NoRead
    /\ \/ /\ ArchiveUnopened
          /\ entries \in Listings
       \/ /\ NewCPIO9P(<< <<>>, <<"b">>, <<"b", "c">> >>)
          /\ entries = <<>>

NextRD ==
    \/ Reader_OpenDir
    \/ Reader_ReadDir
    \/ Client_Readdir

SpecRD == InitRD /\ [][NextRD]_vars

\* C34: ReadDir stops at the first entry that does not fit: what it writes
\* is a prefix of what the backend returned, and the bytes it reports are
\* no more than the buffer holds.
C34_ReadDirWritesPrefix ==
    /\ IsPrefix(rd.written, rd.d)
    /\ rd.BytesRead <= rd.Dst

\* C35: Readdir(offset) on an unchanged real directory of N entries returns
\* those at positions offset..N-1, in order, each with Offset = position + 1,
\* and none when offset >= N.
C35_ReaddirResumesAtOffset ==
    fsOp.kind = "Readdir"
      => /\ Alive
         /\ fsRes.err = "nil"
         /\ LET N == Len(entries)
                off == fsOp.offset
            IN /\ Len(fsRes.dirents) = (IF off >= N THEN 0 ELSE N - off)
               /\ \A k \in 1..Len(fsRes.dirents) :
                    /\ fsRes.dirents[k].Name = <<entries[off + k]>>
                    /\ fsRes.dirents[k].Offset = (off + k - 1) + 1

\* The kernel goes on reading a directory it has opened until it is handed
\* an empty result; nothing else runs.
NextRL ==
    \/ Reader_OpenDir
    \/ Reader_ReadDir

SpecRL == InitRD /\ [][NextRL]_vars /\ WF_vars(NextRL)

\* The names in the directory being read: the archive root's "." and
\* children, or the entries of the real directory.
DirectoryNames ==
    IF recs # <<>>
      THEN LET ds == Readdir([path |-> 0]).dirents
           IN {ds[k].Name : k \in 1..Len(ds)}
      ELSE {<<entries[k]>> : k \in 1..Len(entries)}

\* C36: reading a directory to its end terminates: the reader is eventually
\* handed an empty result, and has by then seen every entry once.
C36_IterationTerminates ==
    <>(/\ rd.pc = "end"
       /\ DOMAIN rd.seen = DirectoryNames
       /\ \A nm \in DirectoryNames : rd.seen[nm] = 1)

\* ===================================================== gateway over archive
\* Session.Namespace in gateway mode with the archive as the tree served, every
\* step succeeding: root, err := cl.Attach("/") gives the archive's node 0;
\* NewP9FS; fuse.Mount; s.cfs.inMap[1] = entry{fid: root, root: true, ino: 1}.
Namespace_OverArchive ==
    /\ Alive /\ ~serving /\ recs # <<>>
    /\ rootFid' = [id |-> 0, path |-> 0]
    /\ inMap' = MapPut(EmptyMap, RootInodeID,
                       Entry(rootFid', TRUE, ZeroQID, RootInodeID))
    /\ openfile' = EmptyMap
    /\ serving' = TRUE
    /\ UNCHANGED <<envVars, sessVars, nsVars, worldVars, mu, keepPageCache,
                   workerVars, panicked, arVars, gaVars, cpuVars, restVars>>

\* P9FS.LookUpInode(parent, name), from Lock to Unlock, with the fids on the
\* archive.  CPIO9PFID embeds p9.DefaultWalkGetAttr, so the server answers
\* WalkGetAttr with the QIDs of Walk and the attributes of the node walked to.
\* The kernel names a parent it has been given.
LookUpInode_OverArchive ==
    /\ Alive /\ serving /\ recs # <<>>
    /\ \E parent \in DOMAIN inMap, name \in WalkNames :
       \E res \in {Walk([path |-> inMap[parent].fid.path], <<name>>)} :
         /\ arOp' = [kind |-> "LookUpInode", parent |-> parent, name |-> name]
         /\ IF res.err = "index out of range"
              THEN /\ panicked' = res.err
                   /\ UNCHANGED <<inMap, arRes>>
            ELSE IF res.err # "nil"
              THEN /\ arRes' = [err |-> res.err]
                   /\ UNCHANGED <<inMap, panicked>>
            ELSE LET q == res.qids[1]
                     f == [id |-> 0, path |-> res.file.path]
                 IN /\ inMap' = MapPut(inMap, q.Path,
                                       Entry(f, FALSE, q, q.Path))
                    /\ arRes' = [err |-> "nil", child |-> q.Path, file |-> f]
                    /\ UNCHANGED panicked
    /\ UNCHANGED <<envVars, sessVars, nsVars, worldVars, serving, mu, openfile,
                   keepPageCache, rootFid, workerVars, recs, m, fid, gaVars,
                   cpuVars, restVars>>

NextGC ==
    \/ Namespace_OverArchive
    \/ LookUpInode_OverArchive

SpecGC == InitAR /\ [][NextGC]_vars

\* C37: the number LookUpInode returns for a child is the QID path the child
\* node reports of itself, is not the parent's number, and every entry the
\* gateway keeps under a number is the file of that number, so no two files
\* share one.
C37_InodeNumberIdentifiesChild ==
    /\ (arOp.kind = "LookUpInode" /\ arRes.err = "nil")
         => /\ arRes.child = info([path |-> arRes.file.path]).qid.Path
            /\ arRes.child # arOp.parent
    /\ \A i \in DOMAIN inMap :
         ~inMap[i].root => info([path |-> inMap[i].fid.path]).qid.Path = i

\* C38: once inserted, the entry under the root inode number stays the root
\* entry: marked root and holding the attached root node.
C38_RootEntryKept ==
    serving => /\ RootInodeID \in DOMAIN inMap
               /\ inMap[RootInodeID].root
               /\ inMap[RootInodeID].fid = rootFid

\* ------------------------------------------ archive backend: node indices
\* C39: the node a client holds, reached from Attach by any Walks, has a
\* record index below the number of records, so the record lookup that Walk,
\* Open, ReadAt, GetAttr and Readdir start with succeeds on it, and no call
\* made indexes outside the record list.
C39_NodeIndexInRange ==
    /\ fid # NoNode
         => /\ fid.path >= 0
            /\ fid.path < Len(recs)
            /\ rec(fid).err = "nil"
    /\ (arOp.kind \in {"Walk", "Open", "Readdir"})
         => arRes.err # "index out of range"

\* A Walk by name has reached the last record of an archive of several.
C39_Witness ==
    /\ arOp.kind = "Walk" /\ arOp.names # <<>> /\ arRes.err = "nil"
    /\ fid = arRes.file
    /\ fid.path = Len(recs) - 1
    /\ fid.path > 0
====
